---------------------------- MODULE Spec2Model ----------------------------
(***************************************************************************)
(* A model of the on-disk format layer of imxmi: the MBR codec             *)
(* (core/fs/mbr.py), the GPT codec (core/fs/gpt.py) and the FAT codec      *)
(* (core/fs/fat.py).  Byte buffers are sequences of 0..255; Python's       *)
(* 0-based offsets are kept and translated by At/Slice.                    *)
(***************************************************************************)
EXTENDS Integers, Sequences, FiniteSets, TLC

VARIABLES
    mbr,      \* the MBR object: [bootstrap, partitions]
    mlast,    \* outcome of the last call on the MBR object / codec
    mdata,    \* the byte buffer handed to MBR.parse
    moff,     \* offset of the exported sector inside mdata
    mtamper,  \* what was done to the exported bytes since MBR.export
    mpoff,    \* the offset argument of the last MBR.parse
    mres,     \* result of MBR.parse(mdata, mpoff)
    mimage    \* outcome of LinuxImage.parse on the stream that holds mdata

VARIABLES
    gpt,      \* the GPT object: [header, sector_size, partitions]
    glast,    \* [op, tag]: the last call on the GPT object / codec and its outcome
              \* (a parse also records its sector_size argument)
    gdata,    \* the byte buffer handed to GPT.parse
    gorigin,  \* where gdata comes from: "none", "image" or "export"
    gflip,    \* index of the header bit flipped in gdata, or -1
    gpoff,    \* the offset argument of the last GPT.parse
    gres      \* result of GPT.parse(gdata, gpoff)

mbrVars == <<mbr, mlast, mdata, moff, mtamper, mpoff, mres, mimage>>

gptVars == <<gpt, glast, gdata, gorigin, gflip, gpoff, gres>>

\* core/fs/fat.py: the stream a FAT object reads, the FAT object, the
\* position of a running _get_file_clusters loop and the outcome of the
\* last call
VARIABLES
    fio,
    fat,
    fwalk,
    fres

fatVars == <<fio, fat, fwalk, fres>>

nonMbrVars == <<gptVars, fatVars>>

nonGptVars == <<mbrVars, fatVars>>

nonFatVars == <<mbrVars, gptVars>>

vars == <<mbrVars, gptVars, fatVars>>

---------------------------------------------------------------------------
(* Integer and byte helpers: Python's &, |, >>, << and struct's            *)
(* little-endian pack / unpack_from.                                       *)

RECURSIVE BitAnd(_, _)
BitAnd(a, b) ==
    IF a = 0 \/ b = 0 THEN 0
    ELSE (a % 2) * (b % 2) + 2 * BitAnd(a \div 2, b \div 2)

RECURSIVE BitOr(_, _)
BitOr(a, b) ==
    IF a = 0 THEN b
    ELSE IF b = 0 THEN a
    ELSE (IF (a % 2) + (b % 2) > 0 THEN 1 ELSE 0) + 2 * BitOr(a \div 2, b \div 2)

RECURSIVE BitXor(_, _)
BitXor(a, b) ==
    IF a = 0 THEN b
    ELSE IF b = 0 THEN a
    ELSE (((a % 2) + (b % 2)) % 2) + 2 * BitXor(a \div 2, b \div 2)

Shr(a, n) == a \div (2 ^ n)

Shl(a, n) == a * (2 ^ n)

\* data[i] of a Python bytes object
At(data, i) == data[i + 1]

\* data[a:b] of a Python bytes object (clipped to the buffer, as Python does)
Slice(data, a, b) ==
    LET hi == IF b > Len(data) THEN Len(data) ELSE b
    IN  IF a >= hi THEN <<>> ELSE SubSeq(data, a + 1, hi)

\* bytes([0] * n)
Zeros(n) == [i \in 1..n |-> 0]

\* struct.pack of one little-endian unsigned integer of n bytes
RECURSIVE PackLE(_, _)
PackLE(v, n) == IF n = 0 THEN <<>> ELSE <<v % 256>> \o PackLE(v \div 256, n - 1)

\* struct.unpack_from of one little-endian unsigned integer of n bytes
RECURSIVE UnpackLE(_, _, _)
UnpackLE(data, off, n) ==
    IF n = 0 THEN 0
    ELSE At(data, off) + 256 * UnpackLE(data, off + 1, n - 1)

---------------------------------------------------------------------------
(* binascii.crc32: the reflected CRC-32 of zlib (polynomial 0xEDB88320,    *)
(* initial value and final xor 0xFFFFFFFF).  A 32-bit value does not fit   *)
(* the model checker's integers, so a CRC is carried as its four           *)
(* little-endian bytes, which is also how pack('<I') lays it out.          *)

\* a ^ b on bytes, tabulated
XorTab == [a \in 0..255 |-> [b \in 0..255 |-> BitXor(a, b)]]

Xor8(a, b) == XorTab[a][b]

\* one shift-and-conditional-xor step on <<high half, low half>>
CrcShift(c) ==
    LET hi == c[1] \div 2
        lo == (c[2] \div 2) + (c[1] % 2) * 32768
    IN  IF c[2] % 2 = 1 THEN <<BitXor(hi, 60856), BitXor(lo, 33568)>>
        ELSE <<hi, lo>>

RECURSIVE CrcShiftN(_, _)
CrcShiftN(c, n) == IF n = 0 THEN c ELSE CrcShiftN(CrcShift(c), n - 1)

\* the byte-indexed table of the CRC, each row as four little-endian bytes
CrcTab ==
    [n \in 0..255 |->
        LET c == CrcShiftN(<<0, n>>, 8)
        IN  <<c[2] % 256, c[2] \div 256, c[1] % 256, c[1] \div 256>>]

\* crc = table[(crc ^ byte) & 0xFF] ^ (crc >> 8)
CrcByte(crc, byte) ==
    LET t == CrcTab[Xor8(crc[1], byte)]
    IN  <<Xor8(crc[2], t[1]), Xor8(crc[3], t[2]), Xor8(crc[4], t[3]), t[4]>>

\* the running CRC over data[from..to], by halving the range (the Len test
\* makes the left half's value be computed before the right half starts)
RECURSIVE CrcRange(_, _, _, _)
CrcRange(crc, data, from, to) ==
    IF from > to THEN crc
    ELSE IF from = to THEN CrcByte(crc, data[from])
    ELSE LET mid  == (from + to) \div 2
             left == CrcRange(crc, data, from, mid)
         IN  IF Len(left) = 4 THEN CrcRange(left, data, mid + 1, to) ELSE left

\* binascii.crc32(data), as four little-endian bytes
Crc32(data) ==
    LET c == CrcRange(<<255, 255, 255, 255>>, data, 1, Len(data))
    IN  <<255 - c[1], 255 - c[2], 255 - c[3], 255 - c[4]>>

---------------------------------------------------------------------------
(* Results of calls that may raise: tag is "ok" or the exception's name.   *)

Ok(v) == [tag |-> "ok", val |-> v]

Raise(name, v) == [tag |-> name, val |-> v]

(* A codec that a specification leaves aside keeps these values.          *)

MBRIdle ==
    /\ mbr = [bootstrap |-> <<>>, partitions |-> <<>>]
    /\ mlast = "ok"
    /\ mdata = <<>>
    /\ moff = 0
    /\ mtamper = "none"
    /\ mpoff = 0
    /\ mres = [tag |-> "none", val |-> [bootstrap |-> <<>>, partitions |-> <<>>]]
    /\ mimage = [tag |-> "none"]

GPTIdle ==
    /\ gpt = <<>>
    /\ glast = [op |-> "none", tag |-> "ok"]
    /\ gdata = <<>>
    /\ gorigin = "none"
    /\ gflip = -1
    /\ gpoff = 0
    /\ gres = [tag |-> "none"]

FATIdle ==
    /\ fio = [io |-> <<>>, offset |-> 0]
    /\ fat = [tag |-> "none"]
    /\ fwalk = [pc |-> "idle"]
    /\ fres = [op |-> "none", tag |-> "none"]

---------------------------------------------------------------------------
(* core/fs/mbr.py                                                          *)

PT_EMPTY == 0

PT_FAT32X == 12

PT_LINUX == 131

PT_EFI_GPT_PROTECT_MBR == 238

MBR_ENTRY_SIZE == 16

MBR_BOOTSTRAP_SIZE == 446

MBR_MAX_PARTITIONS == 4

MBR_SIGNATURE == 43605

MBR_SIZE == 512

\* PartitionEntry.__init__ followed by attribute assignments
MbrEntry(status, ptype, sh, ss, sc, eh, es, ec, lba, num) ==
    [status |-> status, partition_type |-> ptype,
     start_head |-> sh, start_sector |-> ss, start_cylinder |-> sc,
     end_head |-> eh, end_sector |-> es, end_cylinder |-> ec,
     lba_start |-> lba, num_sectors |-> num]

\* PartitionEntry.export without the cylinder bits 9..8 in the sector bytes
MbrEntryExportLowCylinder(e) ==
    << e.status, e.start_head, BitAnd(e.start_sector, 63), BitAnd(e.start_cylinder, 255),
       e.partition_type, e.end_head, BitAnd(e.end_sector, 63), BitAnd(e.end_cylinder, 255) >>
    \o PackLE(e.lba_start, 4) \o PackLE(e.num_sectors, 4)

\* PartitionEntry.export: pack('<8BLL', ...)
MbrEntryExport(e) ==
    << e.status,
       e.start_head,
       BitOr(BitAnd(e.start_sector, 63), BitAnd(Shr(e.start_cylinder, 2), 192)),
       BitAnd(e.start_cylinder, 255),
       e.partition_type,
       e.end_head,
       BitOr(BitAnd(e.end_sector, 63), BitAnd(Shr(e.end_cylinder, 2), 192)),
       BitAnd(e.end_cylinder, 255) >>
    \o PackLE(e.lba_start, 4) \o PackLE(e.num_sectors, 4)

\* PartitionEntry.parse with the two high cylinder bits dropped
MbrEntryParseLowCylinder(data, offset) ==
    [status         |-> At(data, offset),
     partition_type |-> At(data, offset + 4),
     start_head     |-> At(data, offset + 1),
     start_sector   |-> BitAnd(At(data, offset + 2), 63),
     start_cylinder |-> At(data, offset + 3),
     end_head       |-> At(data, offset + 5),
     end_sector     |-> BitAnd(At(data, offset + 6), 63),
     end_cylinder   |-> At(data, offset + 7),
     lba_start      |-> UnpackLE(data, offset + 8, 4),
     num_sectors    |-> UnpackLE(data, offset + 12, 4)]

\* PartitionEntry.parse: unpack_from('<8BLL', data, offset)
MbrEntryParse(data, offset) ==
    LET start_sc == At(data, offset + 2)
        start_cs == At(data, offset + 3)
        end_sc   == At(data, offset + 6)
        end_cs   == At(data, offset + 7)
    IN  [status         |-> At(data, offset),
         partition_type |-> At(data, offset + 4),
         start_head     |-> At(data, offset + 1),
         start_sector   |-> BitAnd(start_sc, 63),
         start_cylinder |-> BitOr(start_cs, Shl(BitAnd(start_sc, 192), 2)),
         end_head       |-> At(data, offset + 5),
         end_sector     |-> BitAnd(end_sc, 63),
         end_cylinder   |-> BitOr(end_cs, Shl(BitAnd(end_sc, 192), 2)),
         lba_start      |-> UnpackLE(data, offset + 8, 4),
         num_sectors    |-> UnpackLE(data, offset + 12, 4)]

\* MBR.__init__(bootstrap): an empty partition map
MBRnew(bootstrap) == [bootstrap |-> bootstrap, partitions |-> <<>>]

\* dict.get(key) is not None
Has(partitions, key) == key \in DOMAIN partitions

\* MBR.__setitem__ once the index check has passed: dict[key] = value
DictSet(partitions, key, value) ==
    [k \in (DOMAIN partitions) \cup {key} |-> IF k = key THEN value ELSE partitions[k]]

\* dict.pop(key) of a present key
DictPop(partitions, key) ==
    [k \in (DOMAIN partitions) \ {key} |-> partitions[k]]

\* one 16-byte slot of MBR.export
MBRslot(m, i) ==
    IF ~Has(m.partitions, i) THEN Zeros(MBR_ENTRY_SIZE)
    ELSE MbrEntryExport(m.partitions[i])

RECURSIVE MBRslots(_, _)
MBRslots(m, i) ==
    IF i >= MBR_MAX_PARTITIONS THEN <<>>
    ELSE MBRslot(m, i) \o MBRslots(m, i + 1)

\* MBR.export
MBRexport(m) == m.bootstrap \o MBRslots(m, 0) \o PackLE(MBR_SIGNATURE, 2)

\* the loop of MBR.parse storing every slot
MBRparseAllSlots(data, offset) ==
    [i \in 0..(MBR_MAX_PARTITIONS - 1) |->
        MbrEntryParse(data, offset + MBR_BOOTSTRAP_SIZE + i * MBR_ENTRY_SIZE)]

\* the loop of MBR.parse: slot i is stored iff its partition type is not EMPTY
MBRparseSlots(data, offset) ==
    LET at(i) == MbrEntryParse(data, offset + MBR_BOOTSTRAP_SIZE + i * MBR_ENTRY_SIZE)
        kept  == {i \in 0..(MBR_MAX_PARTITIONS - 1) : at(i).partition_type /= PT_EMPTY}
    IN  [i \in kept |-> at(i)]

\* MBR.parse with the length test written <=
MBRparseStrictLength(data, offset) ==
    IF Len(data) <= MBR_SIZE + offset
    THEN Raise("MBRError", MBRnew(<<>>))
    ELSE IF UnpackLE(data, offset + (MBR_SIZE - 2), 2) /= MBR_SIGNATURE
    THEN Raise("MBRError", MBRnew(<<>>))
    ELSE Ok([bootstrap  |-> Slice(data, offset, offset + MBR_BOOTSTRAP_SIZE),
             partitions |-> MBRparseSlots(data, offset)])

\* MBR.parse(data, offset)
MBRparse(data, offset) ==
    IF Len(data) < MBR_SIZE + offset
    THEN Raise("MBRError", MBRnew(<<>>))
    ELSE IF UnpackLE(data, offset + (MBR_SIZE - 2), 2) /= MBR_SIGNATURE
    THEN Raise("MBRError", MBRnew(<<>>))
    ELSE Ok([bootstrap  |-> Slice(data, offset, offset + MBR_BOOTSTRAP_SIZE),
             partitions |-> MBRparseSlots(data, offset)])

\* Python's None
None == [none |-> TRUE]

\* MBR.__len__
MBRlen(m) == Cardinality(DOMAIN m.partitions)

\* MBR.__getitem__
MBRgetitem(m, key) ==
    IF key >= MBR_MAX_PARTITIONS THEN Raise("IndexError", None)
    ELSE Ok(IF Has(m.partitions, key) THEN m.partitions[key] ELSE None)

\* MBR.__iter__: iter(self._partitions), which yields the keys of the dict.
\* A key is the Python int k, written [int |-> k]: an object without the
\* attributes of a PartitionEntry.  parse fills the dict in slot order.
MBRiter(m) ==
    LET RECURSIVE Ascending(_)
        Ascending(S) ==
            IF S = {} THEN <<>>
            ELSE LET k == CHOOSE x \in S : \A y \in S : x <= y
                 IN  <<[int |-> k]>> \o Ascending(S \ {k})
    IN  Ascending(DOMAIN m.partitions)

\* LinuxImage.FAT_PARTITIONS
FAT_PARTITIONS == (1 :> 12) @@ (4 :> 16) @@ (6 :> 16) @@ (11 :> 32) @@ (12 :> 32)

\* the loop of LinuxImage.parse over self.mbr:
\* part_offset = min(p.lba_start * 512, part_offset)
RECURSIVE PartOffset(_, _)
PartOffset(items, part_offset) ==
    IF items = <<>> THEN Ok(part_offset)
    ELSE IF "lba_start" \notin DOMAIN Head(items) THEN Raise("AttributeError", part_offset)
    ELSE PartOffset(Tail(items),
                    IF Head(items).lba_start * 512 < part_offset
                    THEN Head(items).lba_start * 512 ELSE part_offset)

\* LinuxImage.parse() on a stream whose cursor stands at pos.  The boot
\* loader and environment parsers it calls between the loop and the
\* partitions belong to other packages and are taken to return.  The value
\* is None until the loop over self.mbr has ended; from then on it holds
\* part_offset and, in fat and ext, the arguments of the FAT and ExtX
\* constructors, or None.
LinuxImageParse(io, pos) ==
    LET m    == MBRparse(Slice(io, pos, pos + MBR_SIZE), 0)
        loop == PartOffset(MBRiter(m.val), 8388608)
    IN  IF m.tag /= "ok" THEN Raise(m.tag, None)
        ELSE IF MBRlen(m.val) = 0 THEN Raise("Exception", None)
        ELSE IF loop.tag /= "ok" THEN Raise(loop.tag, None)
        ELSE LET first  == MBRgetitem(m.val, 0).val
                 second == MBRgetitem(m.val, 1).val
                 fat0   == IF first.partition_type \in DOMAIN FAT_PARTITIONS
                           THEN [offset |-> first.lba_start * 512,
                                 bits   |-> FAT_PARTITIONS[first.partition_type]]
                           ELSE None
                 ext0   == IF fat0 = None /\ first.partition_type = PT_LINUX
                           THEN [offset |-> first.lba_start * 512] ELSE None
                 ext1   == IF second.partition_type = PT_LINUX
                           THEN [offset |-> second.lba_start * 512] ELSE None
                 none   == [part_offset |-> loop.val, fat |-> None, ext |-> None]
             IN  \* self.mbr[0].partition_type on None
                 IF first = None THEN Raise("AttributeError", none)
                 ELSE IF MBRlen(m.val) > 1 /\ ext0 = None
                 THEN \* self.mbr[1].partition_type on None
                      IF second = None
                      THEN Raise("AttributeError", [none EXCEPT !.fat = fat0])
                      ELSE Ok([none EXCEPT !.fat = fat0, !.ext = ext1])
                 ELSE Ok([none EXCEPT !.fat = fat0, !.ext = ext0])

(* Inputs of the MBR operations.                                           *)

\* bytearray(BOOTSTRAP_SIZE), the constructor's default
ZeroBootstrap == Zeros(MBR_BOOTSTRAP_SIZE)

\* a 446-byte boot loader
CodeBootstrap == [i \in 1..MBR_BOOTSTRAP_SIZE |-> (i * 7 + 228) % 256]

\* a bootstrap that is not 446 bytes long (the setter accepts any bytes)
ShortBootstrap == <<235, 60, 144>>

Bootstraps == {ZeroBootstrap, CodeBootstrap, ShortBootstrap}

\* the protective entry of tests/test_mbr_api.py
ProtectiveEntry == MbrEntry(0, PT_EFI_GPT_PROTECT_MBR, 0, 1, 0, 255, 63, 1023, 1, 27262975)

\* a bootable entry; both cylinders use bits 9..8
BootableEntry == MbrEntry(128, PT_FAT32X, 32, 33, 256, 254, 0, 767, 2048, 2147483647)

\* an entry left at partition type EMPTY
EmptyTypeEntry == MbrEntry(0, PT_EMPTY, 1, 1, 0, 1, 2, 3, 63, 100)

\* an entry whose sector and cylinder exceed the 6-bit and 10-bit fields
WideEntry == MbrEntry(0, PT_FAT32X, 0, 65, 1029, 0, 127, 2047, 1, 1)

\* a Linux partition
LinuxEntry == MbrEntry(0, PT_LINUX, 0, 1, 0, 0, 1, 0, 4096, 2048)

MbrEntries == {ProtectiveEntry, BootableEntry, EmptyTypeEntry, WideEntry, LinuxEntry}

MbrKeys == {-1, 0, 1, 2, 3, 4}

PadLen == 3

MaxParts == 3

Pad == [i \in 1..PadLen |-> 170]

NoResult == [tag |-> "none", val |-> MBRnew(<<>>)]

\* mutations are made on the object before it is exported
Building == mdata = <<>>

MBRInit ==
    /\ mbr \in {MBRnew(b) : b \in Bootstraps}
    /\ mlast = "ok"
    /\ mdata = <<>>
    /\ moff = 0
    /\ mtamper = "none"
    /\ mpoff = 0
    /\ mres = NoResult
    /\ mimage = [tag |-> "none"]
    /\ GPTIdle
    /\ FATIdle

\* mbr.bootstrap = value
MBRSetBootstrap(b) ==
    /\ Building
    /\ mbr' = [mbr EXCEPT !.bootstrap = b]
    /\ mlast' = "ok"
    /\ UNCHANGED <<mdata, moff, mtamper, mpoff, mres, mimage, nonMbrVars>>

\* the harness populates at most MaxParts keys of one object
MbrRoom(key) ==
    \/ key >= MBR_MAX_PARTITIONS
    \/ Has(mbr.partitions, key)
    \/ Cardinality(DOMAIN mbr.partitions) < MaxParts

\* mbr[key] = value
MBRSetItem(key, value) ==
    /\ Building
    /\ MbrRoom(key)
    /\ IF key >= MBR_MAX_PARTITIONS
       THEN mbr' = mbr /\ mlast' = "IndexError"
       ELSE /\ mbr' = [mbr EXCEPT !.partitions = DictSet(@, key, value)]
            /\ mlast' = "ok"
    /\ UNCHANGED <<mdata, moff, mtamper, mpoff, mres, mimage, nonMbrVars>>

\* mbr.dell(index)
MBRDell(index) ==
    /\ Building
    /\ IF ~Has(mbr.partitions, index)
       THEN mbr' = mbr /\ mlast' = "KeyError"
       ELSE /\ mbr' = [mbr EXCEPT !.partitions = DictPop(@, index)]
            /\ mlast' = "ok"
    /\ UNCHANGED <<mdata, moff, mtamper, mpoff, mres, mimage, nonMbrVars>>

\* mbr.clear()
MBRClear ==
    /\ Building
    /\ mbr' = [mbr EXCEPT !.partitions = <<>>]
    /\ mlast' = "ok"
    /\ UNCHANGED <<mdata, moff, mtamper, mpoff, mres, mimage, nonMbrVars>>

\* data = mbr.export()
MBRExport ==
    /\ Building
    /\ mdata' = MBRexport(mbr)
    /\ mlast' = "ok"
    /\ UNCHANGED <<mbr, moff, mtamper, mpoff, mres, mimage, nonMbrVars>>

\* the caller places the sector behind PadLen other bytes
MBRPad ==
    /\ mdata /= <<>> /\ moff = 0 /\ mres.tag = "none" /\ mimage.tag = "none"
    /\ mdata' = Pad \o mdata
    /\ moff' = PadLen
    /\ UNCHANGED <<mbr, mlast, mtamper, mpoff, mres, mimage, nonMbrVars>>

\* the two trailing bytes of the sector are overwritten
MBRCorruptSignature(lo, hi) ==
    /\ mdata /= <<>> /\ mtamper = "none" /\ mres.tag = "none" /\ mimage.tag = "none"
    /\ Len(mdata) >= moff + MBR_SIZE
    /\ mdata' = [mdata EXCEPT ![moff + MBR_SIZE - 1] = lo, ![moff + MBR_SIZE] = hi]
    /\ mtamper' = "signature"
    /\ UNCHANGED <<mbr, mlast, moff, mpoff, mres, mimage, nonMbrVars>>

\* the buffer loses its last byte
MBRTruncate ==
    /\ mdata /= <<>> /\ mtamper = "none" /\ mres.tag = "none" /\ mimage.tag = "none"
    /\ mdata' = SubSeq(mdata, 1, Len(mdata) - 1)
    /\ mtamper' = "truncated"
    /\ UNCHANGED <<mbr, mlast, moff, mpoff, mres, mimage, nonMbrVars>>

\* MBR.parse(data, offset)
MBRParse(offset) ==
    /\ mdata /= <<>> /\ mres.tag = "none" /\ mimage.tag = "none"
    /\ mpoff' = offset
    /\ mres' = MBRparse(mdata, offset)
    /\ mlast' = mres'.tag
    /\ UNCHANGED <<mbr, mdata, moff, mtamper, mimage, nonMbrVars>>

\* LinuxImage(stream).parse(), the cursor of the stream at pos
LinuxImageParseAt(pos) ==
    /\ mdata /= <<>> /\ mres.tag = "none" /\ mimage.tag = "none"
    /\ mimage' = [LinuxImageParse(mdata, pos) EXCEPT !.val = [pos |-> pos, out |-> @]]
    /\ UNCHANGED <<mbr, mlast, mdata, moff, mtamper, mpoff, mres, nonMbrVars>>

SignatureBytes == {<<170, 85>>, <<85, 171>>, <<84, 170>>}

MBRNext ==
    \/ \E b \in Bootstraps : MBRSetBootstrap(b)
    \/ \E k \in MbrKeys, e \in MbrEntries : MBRSetItem(k, e)
    \/ \E k \in MbrKeys : MBRDell(k)
    \/ MBRClear
    \/ MBRExport
    \/ MBRPad
    \/ \E s \in SignatureBytes : MBRCorruptSignature(s[1], s[2])
    \/ MBRTruncate
    \/ \E off \in {0, PadLen} : MBRParse(off)
    \/ \E pos \in {0, PadLen} : LinuxImageParseAt(pos)

SpecMBR == MBRInit /\ [][MBRNext]_vars

(* The CHS packing of one entry: an MBR holding a single entry whose start   *)
(* and end CHS values are drawn from the boundaries of the three fields is   *)
(* exported and parsed back.                                                 *)

CHSInit ==
    /\ \E key \in {0, MBR_MAX_PARTITIONS - 1} :
       \E sh \in {0, 255}, ss \in {0, 63}, sc \in {0, 255, 256, 1023} :
       \E eh \in {0, 255}, es \in {0, 63}, ec \in {0, 255, 256, 1023} :
          mbr = [bootstrap  |-> ZeroBootstrap,
                 partitions |-> (key :> MbrEntry(0, PT_FAT32X, sh, ss, sc, eh, es, ec, 1, 1))]
    /\ mlast = "ok"
    /\ mdata = <<>>
    /\ moff = 0
    /\ mtamper = "none"
    /\ mpoff = 0
    /\ mres = NoResult
    /\ mimage = [tag |-> "none"]
    /\ GPTIdle
    /\ FATIdle

CHSNext ==
    \/ MBRExport
    \/ MBRPad
    \/ \E off \in {0, PadLen} : MBRParse(off)

SpecCHS == CHSInit /\ [][CHSNext]_vars

---------------------------------------------------------------------------
(* core/fs/gpt.py                                                          *)
(* Header fields are carried as the little-endian bytes pack() writes for  *)
(* them: a header read from a damaged sector holds 32- and 64-bit values   *)
(* beyond the model checker's integers.                                    *)

\* Header.SIGNATURE = b'EFI PART'
GPT_SIGNATURE == <<69, 70, 73, 32, 80, 65, 82, 84>>

\* Header.SIZE = calcsize('<8s4s3I4Q16sQ3I')
GPT_HEADER_SIZE == 92

\* PartitionEntry.SIZE = calcsize('<16s16sQQQ72s')
GPT_ENTRY_SIZE == 128

GPT_MAX_PARTITIONS == 128

GPT_NAME_SIZE == 72

\* Header.__init__, with the uuid4() it draws
HeaderNew(guid) ==
    [revision                    |-> <<0, 0, 1, 0>>,
     current_lba                 |-> Zeros(8),
     backup_lba                  |-> Zeros(8),
     first_usable_lba            |-> Zeros(8),
     last_usable_lba             |-> Zeros(8),
     disk_guid                   |-> guid,
     partition_entry_lba         |-> Zeros(8),
     number_of_partition_entries |-> Zeros(4),
     size_of_partition_entry     |-> Zeros(4),
     partition_entry_array_crc32 |-> Zeros(4)]

\* pack(Header.FORMAT, SIGNATURE, revision, SIZE, crc, 0, ...): the reserved
\* field is always packed as 0
HeaderPack(h, crc) ==
    GPT_SIGNATURE \o h.revision \o PackLE(GPT_HEADER_SIZE, 4) \o crc \o PackLE(0, 4)
    \o h.current_lba \o h.backup_lba \o h.first_usable_lba \o h.last_usable_lba
    \o h.disk_guid \o h.partition_entry_lba \o h.number_of_partition_entries
    \o h.size_of_partition_entry \o h.partition_entry_array_crc32

\* Header.header_crc
HeaderCrc(h) == Crc32(HeaderPack(h, PackLE(0, 4)))

\* Header.export
HeaderExport(h) == HeaderPack(h, HeaderCrc(h))

\* the fields Header.parse unpacks from data at offset (the reserved word at
\* offset+20 goes to _)
HeaderUnpack(data, offset) ==
    [revision                    |-> Slice(data, offset + 8, offset + 12),
     current_lba                 |-> Slice(data, offset + 24, offset + 32),
     backup_lba                  |-> Slice(data, offset + 32, offset + 40),
     first_usable_lba            |-> Slice(data, offset + 40, offset + 48),
     last_usable_lba             |-> Slice(data, offset + 48, offset + 56),
     disk_guid                   |-> Slice(data, offset + 56, offset + 72),
     partition_entry_lba         |-> Slice(data, offset + 72, offset + 80),
     number_of_partition_entries |-> Slice(data, offset + 80, offset + 84),
     size_of_partition_entry     |-> Slice(data, offset + 84, offset + 88),
     partition_entry_array_crc32 |-> Slice(data, offset + 88, offset + 92)]

\* Header.parse(data, offset)
HeaderParse(data, offset) ==
    IF Len(data) <= offset + GPT_HEADER_SIZE
    THEN Raise("Exception", <<>>)
    ELSE LET obj == HeaderUnpack(data, offset)
         IN  IF Slice(data, offset, offset + 8) /= GPT_SIGNATURE
             THEN Raise("GPTError", <<>>)
             ELSE IF Slice(data, offset + 12, offset + 16) /= PackLE(GPT_HEADER_SIZE, 4)
             THEN Raise("GPTError", <<>>)
             ELSE IF Slice(data, offset + 16, offset + 20) /= HeaderCrc(obj)
             THEN Raise("GPTError", <<>>)
             ELSE Ok(obj)

\* gpt.PartitionEntry.__init__ followed by attribute assignments
GptEntry(name, ptype, guid, first, last, flags) ==
    [partition_name |-> name, partition_type |-> ptype, partition_guid |-> guid,
     first_lba |-> first, last_lba |-> last, attribute_flags |-> flags]

\* str.encode('utf-16'): a byte-order mark, then each code unit low byte first
RECURSIVE Utf16LE(_)
Utf16LE(units) ==
    IF units = <<>> THEN <<>>
    ELSE <<Head(units) % 256, Head(units) \div 256>> \o Utf16LE(Tail(units))

Utf16Encode(name) == <<255, 254>> \o Utf16LE(name)

\* pack('72s', b): b cut to n bytes or filled with zero bytes
PackS(b, n) == IF Len(b) >= n THEN SubSeq(b, 1, n) ELSE b \o Zeros(n - Len(b))

\* bytes.decode('utf-16') of an even number of bytes: a leading byte-order
\* mark selects the byte order and is dropped; without one the order is
\* little-endian
Utf16Decode(b) ==
    LET bom   == IF Len(b) >= 2 THEN <<b[1], b[2]>> ELSE <<>>
        big   == bom = <<254, 255>>
        skip  == IF bom = <<255, 254>> \/ big THEN 2 ELSE 0
        count == (Len(b) - skip) \div 2
    IN  [i \in 1..count |->
            IF big THEN b[skip + 2 * i - 1] * 256 + b[skip + 2 * i]
            ELSE b[skip + 2 * i - 1] + 256 * b[skip + 2 * i]]

\* str.strip('\0')
RECURSIVE StripNul(_)
StripNul(units) ==
    IF units = <<>> THEN <<>>
    ELSE IF Head(units) = 0 THEN StripNul(Tail(units))
    ELSE IF units[Len(units)] = 0 THEN StripNul(SubSeq(units, 1, Len(units) - 1))
    ELSE units

\* gpt.PartitionEntry.export
GptEntryExport(e) ==
    e.partition_type \o e.partition_guid
    \o PackLE(e.first_lba, 8) \o PackLE(e.last_lba, 8) \o PackLE(e.attribute_flags, 8)
    \o PackS(Utf16Encode(e.partition_name), GPT_NAME_SIZE)

\* gpt.PartitionEntry.parse(data, offset)
GptEntryParse(data, offset) ==
    IF Len(data) <= offset + GPT_ENTRY_SIZE
    THEN Raise("Exception", <<>>)
    ELSE Ok([partition_type  |-> Slice(data, offset, offset + 16),
             partition_guid  |-> Slice(data, offset + 16, offset + 32),
             first_lba       |-> UnpackLE(data, offset + 32, 8),
             last_lba        |-> UnpackLE(data, offset + 40, 8),
             attribute_flags |-> UnpackLE(data, offset + 48, 8),
             partition_name  |->
                 StripNul(Utf16Decode(Slice(data, offset + 56, offset + GPT_ENTRY_SIZE)))])

\* GPT.__init__(header)
GPTnew(header) == [header |-> header, sector_size |-> 512, partitions |-> <<>>]

\* the partition entries lo..hi-1 that GPT.export appends, when every slot is
\* present
RECURSIVE GPTarrayRange(_, _, _)
GPTarrayRange(g, lo, hi) ==
    IF hi - lo = 1 THEN GptEntryExport(g.partitions[lo])
    ELSE LET mid == (lo + hi) \div 2
         IN  GPTarrayRange(g, lo, mid) \o GPTarrayRange(g, mid, hi)

\* GPT.export: self._partitions[i] raises KeyError at the first absent slot
GPTexport(g) ==
    IF \E i \in 0..(GPT_MAX_PARTITIONS - 1) : ~Has(g.partitions, i)
    THEN Raise("KeyError", <<>>)
    ELSE Ok(HeaderExport(g.header) \o Zeros(g.sector_size - GPT_HEADER_SIZE) \o GPTarrayRange(g, 0, GPT_MAX_PARTITIONS))

\* a scan of all 128 slots whatever the header announces
EntryCountMax(h) == GPT_MAX_PARTITIONS

\* range(header.number_of_partition_entries): a count of 2^31 or more is
\* cut to 2^31 - 1, far more slots than any buffer here holds
EntryCount(h) ==
    IF h.number_of_partition_entries[4] >= 128 THEN 2147483647
    ELSE UnpackLE(h.number_of_partition_entries, 0, 4)

\* the test GPT.parse applies before it stores a slot
GptKeeps(pentry) == pentry.first_lba /= 0 /\ pentry.last_lba /= 0

\* the loop of GPT.parse over header.number_of_partition_entries slots: slot
\* i is read at offset + sector_size + i * SIZE; the loop ends at the first
\* slot whose read raises, or whose gpt[i] = pentry raises IndexError
GPTparseSlots(header, data, offset, sector_size) ==
    LET n       == EntryCount(header)
        at(i)   == GptEntryParse(data, offset + sector_size + i * GPT_ENTRY_SIZE)
        room    == Len(data) - offset - sector_size
        \* slots whose read can succeed, and one more
        reach   == IF room <= 0 THEN 1 ELSE (room \div GPT_ENTRY_SIZE) + 1
        scanned == 0..((IF n < reach THEN n ELSE reach) - 1)
        fails(i) == \/ at(i).tag /= "ok"
                    \/ (GptKeeps(at(i).val) /\ i >= GPT_MAX_PARTITIONS)
        bad     == {i \in scanned : fails(i)}
        first   == CHOOSE i \in bad : \A j \in bad : i <= j
    IN  IF bad /= {}
        THEN Raise(IF at(first).tag /= "ok" THEN "Exception" ELSE "IndexError", <<>>)
        ELSE Ok([header      |-> header,
                 sector_size |-> 512,
                 partitions  |-> [i \in {j \in scanned : GptKeeps(at(j).val)} |-> at(i).val]])

\* GPT.parse(data, offset, sector_size)
GPTparse(data, offset, sector_size) ==
    LET h == HeaderParse(data, offset)
    IN  IF h.tag /= "ok" THEN Raise(h.tag, <<>>)
        ELSE GPTparseSlots(h.val, data, offset, sector_size)

(* Inputs of the GPT operations.                                           *)

\* the values uuid.uuid4() may return (bytes_le)
GuidA == [i \in 1..16 |-> 16 + i]

GuidB == [i \in 1..16 |-> 255 - i]

\* 0fc63daf-8483-4772-8e79-3d69d8477de4, Linux filesystem data (bytes_le)
LinuxDataGuid == <<175, 61, 198, 15, 131, 132, 114, 71, 142, 121, 61, 105, 216, 71, 125, 228>>

\* "boot" as UTF-16 code units
NameBoot == <<98, 111, 111, 116>>

BootPart == GptEntry(NameBoot, LinuxDataGuid, GuidA, 34, 2081, 0)

\* a slot whose first_lba is 0 and whose last_lba is not
LowPart == GptEntry(NameBoot, LinuxDataGuid, GuidB, 0, 5, 0)

GptEntries == {BootPart, LowPart}

\* an entry array of count slots as a disk holds it: the entries of the used
\* slots, zero bytes in the unused ones
DiskArray(entries, count) ==
    [k \in 1..(count * GPT_ENTRY_SIZE) |->
        LET i == (k - 1) \div GPT_ENTRY_SIZE
        IN  IF i \in DOMAIN entries
            THEN GptEntryExport(entries[i])[((k - 1) % GPT_ENTRY_SIZE) + 1]
            ELSE 0]

\* the header a partitioning tool writes at LBA 1 for an entry array
DiskHeader(array, count) ==
    [HeaderNew(GuidA) EXCEPT
        !.current_lba = PackLE(1, 8),
        !.backup_lba = PackLE(8191, 8),
        !.first_usable_lba = PackLE(34, 8),
        !.last_usable_lba = PackLE(8158, 8),
        !.partition_entry_lba = PackLE(2, 8),
        !.number_of_partition_entries = PackLE(count, 4),
        !.size_of_partition_entry = PackLE(GPT_ENTRY_SIZE, 4),
        !.partition_entry_array_crc32 = Crc32(array)]

\* a disk image: the protective MBR, the GPT header sector at byte 512, the
\* entry array and `rest` further bytes of the disk
DiskImage(entries, count, rest) ==
    LET array == DiskArray(entries, count)
    IN  MBRexport([bootstrap |-> ZeroBootstrap, partitions |-> (0 :> ProtectiveEntry)])
        \o HeaderExport(DiskHeader(array, count))
        \o Zeros(512 - GPT_HEADER_SIZE) \o array \o Zeros(rest)

\* three slots, the second one unused
SmallImage == DiskImage((0 :> BootPart) @@ (2 :> LowPart), 3, 512)

\* no entries at all
BareImage == DiskImage(<<>>, 0, 512)

\* two slots, the first one unused
ShiftImage == DiskImage((1 :> BootPart), 2, 512)

DiskImages == {SmallImage, BareImage, ShiftImage}

GptBuilding == gdata = <<>>

GPTInit ==
    /\ gpt \in {GPTnew(HeaderNew(g)) : g \in {GuidA, GuidB}}
    /\ glast = [op |-> "new", tag |-> "ok"]
    /\ gdata = <<>>
    /\ gorigin = "none"
    /\ gflip = -1
    /\ gpoff = 0
    /\ gres = [tag |-> "none"]
    /\ MBRIdle
    /\ FATIdle

\* gpt[key] = value
GPTSetItem(key, value) ==
    /\ GptBuilding
    /\ IF key >= GPT_MAX_PARTITIONS
       THEN gpt' = gpt /\ glast' = [op |-> "setitem", tag |-> "IndexError"]
       ELSE /\ gpt' = [gpt EXCEPT !.partitions = DictSet(@, key, value)]
            /\ glast' = [op |-> "setitem", tag |-> "ok"]
    /\ UNCHANGED <<gdata, gorigin, gflip, gpoff, gres, nonGptVars>>

\* for i in range(GPT.MAX_PARTITIONS): gpt[i] = value
GPTFill(value) ==
    /\ GptBuilding
    /\ gpt' = [gpt EXCEPT !.partitions = [i \in 0..(GPT_MAX_PARTITIONS - 1) |-> value]]
    /\ glast' = [op |-> "setitem", tag |-> "ok"]
    /\ UNCHANGED <<gdata, gorigin, gflip, gpoff, gres, nonGptVars>>

\* gpt.dell(index)
GPTDell(index) ==
    /\ GptBuilding
    /\ IF ~Has(gpt.partitions, index)
       THEN gpt' = gpt /\ glast' = [op |-> "dell", tag |-> "KeyError"]
       ELSE /\ gpt' = [gpt EXCEPT !.partitions = DictPop(@, index)]
            /\ glast' = [op |-> "dell", tag |-> "ok"]
    /\ UNCHANGED <<gdata, gorigin, gflip, gpoff, gres, nonGptVars>>

\* gpt.clear()
GPTClear ==
    /\ GptBuilding
    /\ gpt' = [gpt EXCEPT !.partitions = <<>>]
    /\ glast' = [op |-> "clear", tag |-> "ok"]
    /\ UNCHANGED <<gdata, gorigin, gflip, gpoff, gres, nonGptVars>>

\* gpt[key].last_lba = value, on a stored entry
GPTSetLastLba(key, value) ==
    /\ GptBuilding
    /\ Has(gpt.partitions, key)
    /\ gpt' = [gpt EXCEPT !.partitions[key].last_lba = value]
    /\ glast' = [op |-> "setfield", tag |-> "ok"]
    /\ UNCHANGED <<gdata, gorigin, gflip, gpoff, gres, nonGptVars>>

\* gpt.header.number_of_partition_entries = count
GPTSetEntryCount(count) ==
    /\ GptBuilding
    /\ gpt' = [gpt EXCEPT !.header.number_of_partition_entries = PackLE(count, 4)]
    /\ glast' = [op |-> "setheader", tag |-> "ok"]
    /\ UNCHANGED <<gdata, gorigin, gflip, gpoff, gres, nonGptVars>>

\* data = gpt.export()
GPTExport ==
    /\ GptBuilding
    /\ LET r == GPTexport(gpt)
       IN  /\ glast' = [op |-> "export", tag |-> r.tag]
           /\ gdata' = r.val
           /\ gorigin' = IF r.tag = "ok" THEN "export" ELSE "none"
    /\ UNCHANGED <<gpt, gflip, gpoff, gres, nonGptVars>>

\* a disk image is read into memory
GPTReadImage(image) ==
    /\ GptBuilding
    /\ glast.op = "new"
    /\ gdata' = image
    /\ gorigin' = "image"
    /\ glast' = [op |-> "read", tag |-> "ok"]
    /\ UNCHANGED <<gpt, gflip, gpoff, gres, nonGptVars>>

\* bit `bit` of the 92 header bytes at byte 512 of the image is inverted
GPTFlipBit(bit) ==
    /\ gorigin = "image" /\ gflip = -1 /\ gres.tag = "none"
    /\ LET pos == 512 + (bit \div 8) + 1
           old == gdata[pos]
           new == BitXor(old, 2 ^ (bit % 8))
       IN  gdata' = [gdata EXCEPT ![pos] = new]
    /\ gflip' = bit
    /\ UNCHANGED <<gpt, glast, gorigin, gpoff, gres, nonGptVars>>

\* GPT.parse(data, offset, sector_size)
GPTParse(offset, sector_size) ==
    /\ gdata /= <<>> /\ gres.tag = "none"
    /\ gpoff' = offset
    /\ gres' = GPTparse(gdata, offset, sector_size)
    /\ glast' = [op |-> "parse", tag |-> gres'.tag, sector_size |-> sector_size]
    /\ UNCHANGED <<gpt, gdata, gorigin, gflip, nonGptVars>>

\* gpt = GPT.parse(...): the program goes on with the parsed object
GPTAdopt ==
    /\ gres.tag = "ok" /\ gorigin = "image"
    /\ gpt' = gres.val
    /\ glast' = [op |-> "parsed", tag |-> "ok"]
    /\ gdata' = <<>>
    /\ gorigin' = "none"
    /\ gflip' = -1
    /\ gpoff' = 0
    /\ gres' = [tag |-> "none"]
    /\ UNCHANGED nonGptVars

GPTNext ==
    \/ \E k \in {0, GPT_MAX_PARTITIONS - 1, GPT_MAX_PARTITIONS}, e \in GptEntries :
          GPTSetItem(k, e)
    \/ \E e \in {BootPart} : GPTFill(e)
    \/ \E k \in {0, GPT_MAX_PARTITIONS - 1, GPT_MAX_PARTITIONS} : GPTDell(k)
    \/ GPTClear
    \/ \E v \in {0, 4000} : GPTSetLastLba(0, v)
    \/ \E n \in {0, 3, GPT_MAX_PARTITIONS} : GPTSetEntryCount(n)
    \/ GPTExport
    \/ \E img \in DiskImages : GPTReadImage(img)
    \/ \E bit \in 0..(8 * GPT_HEADER_SIZE - 1) : GPTFlipBit(bit)
    \/ \E off \in {0, 512}, sector_size \in {512, 512 + GPT_ENTRY_SIZE} :
          GPTParse(off, sector_size)
    \/ GPTAdopt

SpecGPT == GPTInit /\ [][GPTNext]_vars

---------------------------------------------------------------------------
(* core/fs/fat.py                                                          *)

\* BootSector.SIZE, BootSector32.SIZE and FsInfo32.SIZE
FAT_SECTOR_SIZE == 512

\* BootSector.JUMP_INSTRUCTION = b'\xEB\x3C\x90'
JUMP_INSTRUCTION == <<235, 60, 144>>

\* BootSector.BOOT_SIGNATURE = 0xAA55, as pack('<H') writes it
BOOT_SIGNATURE == <<85, 170>>

\* RootEntry.SFN_SIZE = RootEntry.LFN_SIZE = 32
DIR_ENTRY_SIZE == 32

\* FileAttr.VOLUME_ID and FileAttr.LONG_FILE_NAME
ATTR_VOLUME_ID == 8

ATTR_LONG_FILE_NAME == 15

\* FAT.EOF_MARK
EOF_MARK(bits) == CASE bits = 12 -> 4088 [] bits = 16 -> 65528 [] OTHER -> 268435448

\* lfn_crc: crc_sum = ((crc_sum & 1) << 7) + (crc_sum >> 1) + c, & 0xFF, over
\* the first k bytes of name
RECURSIVE LfnCrcOver(_, _)
LfnCrcOver(name, k) ==
    IF k = 0 THEN 0
    ELSE LET crc_sum == LfnCrcOver(name, k - 1)
         IN  ((crc_sum % 2) * 128 + (crc_sum \div 2) + name[k]) % 256

lfn_crc(name) == LfnCrcOver(name, Len(name))

\* decode_date: date(year, month, day) raises ValueError for month 0 and day
\* 0; a day of at most 15 exists in every month
decode_date(raw_date) ==
    LET d == [year |-> (raw_date \div 512) + 1980, month |-> (raw_date \div 32) % 8,
              day |-> raw_date % 16]
    IN  IF d.month >= 1 /\ d.day >= 1 THEN Ok(d) ELSE Raise("ValueError", d)

\* decode_datetime: datetime(...) raises ValueError for month 0, day 0 and
\* hour > 23
decode_datetime(raw_date, raw_time, raw_time_ms) ==
    LET d == [year |-> (raw_date \div 512) + 1980, month |-> (raw_date \div 32) % 8,
              day |-> raw_date % 16, hour |-> raw_time \div 2048,
              minute |-> (raw_time \div 32) % 32, second |-> (raw_time % 16) * 2,
              microsecond |-> raw_time_ms * 1000]
    IN  IF d.month >= 1 /\ d.day >= 1 /\ d.hour <= 23 THEN Ok(d) ELSE Raise("ValueError", d)

\* bytes.decode() of a name field: ASCII bytes decode to themselves; the
\* names read here hold no multi-byte sequence, so a byte above 0x7F is an
\* invalid start or continuation byte
Utf8Decode(b) ==
    IF \A i \in DOMAIN b : b[i] < 128 THEN Ok(b) ELSE Raise("UnicodeDecodeError", <<>>)

\* str.strip(): whitespace characters at both ends
RECURSIVE StripBlank(_)
StripBlank(b) ==
    LET white == {9, 10, 11, 12, 13, 28, 29, 30, 31, 32}
    IN  IF b = <<>> THEN <<>>
        ELSE IF Head(b) \in white THEN StripBlank(Tail(b))
        ELSE IF b[Len(b)] \in white THEN StripBlank(SubSeq(b, 1, Len(b) - 1))
        ELSE b

\* bytes.ljust(n)

Ljust(b, n) == IF Len(b) >= n THEN b ELSE b \o [i \in 1..(n - Len(b)) |-> 32]

\* BootSector.__init__ / BootSector32.__init__ with fields assigned; wide
\* tells the two classes apart
BootSectorNew(wide, fs_type, reserved_sectors_count, sectors_per_fat, max_root_entries, boot_copy_sector) ==
    [wide |-> wide, bytes_per_sector |-> 512, sectors_per_cluster |-> 1,
     reserved_sectors_count |-> reserved_sectors_count, fat_copies |-> 2,
     max_root_entries |-> max_root_entries, total_sectors |-> 0, media_descriptor |-> 248,
     sectors_per_fat |-> sectors_per_fat, root_cluster |-> 2, fsi_sector |-> 1,
     boot_copy_sector |-> boot_copy_sector, fs_type |-> fs_type]

\* BootSector.export and BootSector32.export; the fields not carried by the
\* model are packed with their __init__ values (0, '', and the oem_name
\* 'imxmi' of BootSector32)
BootSectorExport(b) ==
    JUMP_INSTRUCTION \o PackS(IF b.wide THEN <<105, 109, 120, 109, 105>> ELSE <<>>, 8) \o PackLE(b.bytes_per_sector, 2)
    \o PackLE(b.sectors_per_cluster, 1) \o PackLE(b.reserved_sectors_count, 2)
    \o PackLE(b.fat_copies, 1) \o PackLE(b.max_root_entries, 2) \o PackLE(b.total_sectors, 2)
    \o PackLE(b.media_descriptor, 1)
    \o (IF b.wide
        THEN PackLE(0, 2) \o Zeros(12) \o PackLE(b.sectors_per_fat, 4) \o Zeros(4)
             \o PackLE(b.root_cluster, 4) \o PackLE(b.fsi_sector, 2)
             \o PackLE(b.boot_copy_sector, 2) \o Zeros(12) \o Zeros(7)
             \o PackS(Ljust(<<>>, 11), 11) \o PackS(Ljust(b.fs_type, 8), 8) \o Zeros(420)
        ELSE PackLE(b.sectors_per_fat, 2) \o Zeros(12) \o Zeros(7)
             \o PackS(<<>>, 11) \o PackS(Ljust(b.fs_type, 8), 8) \o Zeros(448))
    \o BOOT_SIGNATURE

\* BootSector.parse(data, offset) for wide = FALSE, BootSector32.parse for
\* wide = TRUE; the jump instruction is compared with data[:3]
BootSectorParse(wide, data, offset) ==
    IF Len(data) < offset + FAT_SECTOR_SIZE THEN Raise("FATError", <<>>)
    ELSE IF Slice(data, offset + FAT_SECTOR_SIZE - 2, offset + FAT_SECTOR_SIZE) /= BOOT_SIGNATURE
    THEN Raise("FATError", <<>>)
    ELSE IF Slice(data, 0, 3) /= JUMP_INSTRUCTION THEN Raise("FATError", <<>>)
    ELSE LET text    == IF wide THEN 71 ELSE 43
             names   == Utf8Decode(Slice(data, offset + 3, offset + 11)
                                   \o Slice(data, offset + text, offset + text + 11))
             fs_type == Utf8Decode(Slice(data, offset + text + 11, offset + text + 19))
         IN  IF names.tag /= "ok" \/ fs_type.tag /= "ok" THEN Raise("UnicodeDecodeError", <<>>)
             ELSE Ok([wide                   |-> wide,
                      bytes_per_sector       |-> UnpackLE(data, offset + 11, 2),
                      sectors_per_cluster    |-> UnpackLE(data, offset + 13, 1),
                      reserved_sectors_count |-> UnpackLE(data, offset + 14, 2),
                      fat_copies             |-> UnpackLE(data, offset + 16, 1),
                      max_root_entries       |-> UnpackLE(data, offset + 17, 2),
                      total_sectors          |-> UnpackLE(data, offset + 19, 2),
                      media_descriptor       |-> UnpackLE(data, offset + 21, 1),
                      sectors_per_fat        |-> IF wide THEN UnpackLE(data, offset + 36, 4)
                                                 ELSE UnpackLE(data, offset + 22, 2),
                      root_cluster           |-> IF wide THEN UnpackLE(data, offset + 44, 4) ELSE 2,
                      fsi_sector             |-> IF wide THEN UnpackLE(data, offset + 48, 2) ELSE 1,
                      boot_copy_sector       |-> IF wide THEN UnpackLE(data, offset + 50, 2) ELSE 0,
                      fs_type                |-> StripBlank(fs_type.val)])

\* BootSector32.__eq__: True for any two BootSector32 objects
BootSector32Eq(a, b) == a.wide /\ b.wide

\* the geometry properties of BootSector and BootSector32
cluster_size(b) == b.bytes_per_sector * b.sectors_per_cluster

\* a fat_size that counts sectors instead of bytes
FatSizeInSectors(b) == b.sectors_per_fat

fat_size(b) == b.sectors_per_fat * b.bytes_per_sector

fat_offset(b) == b.bytes_per_sector * b.reserved_sectors_count

\* BootSector.root_offset; BootSector32 has no such property
root_offset(b) == fat_offset(b) + b.fat_copies * fat_size(b)

\* BootSector.data_offset and BootSector32.data_offset
data_offset(b) ==
    IF b.wide THEN fat_offset(b) + b.fat_copies * fat_size(b)
    ELSE root_offset(b) + b.max_root_entries * 32

\* FsInfo32.LEAD_SIGNATURE, FSNFO_SIGNATURE and TRAIL_SIGNATURE as pack('<I')
\* writes them
FSI_LEAD_SIGNATURE == <<82, 82, 97, 65>>

FSI_FSNFO_SIGNATURE == <<114, 114, 65, 97>>

FSI_TRAIL_SIGNATURE == <<0, 0, 85, 170>>

\* FsInfo32.export
FsInfo32Export(free_clusters, next_free_cluster) ==
    FSI_LEAD_SIGNATURE \o Zeros(480) \o FSI_FSNFO_SIGNATURE \o PackLE(free_clusters, 4)
    \o PackLE(next_free_cluster, 4) \o Zeros(12) \o FSI_TRAIL_SIGNATURE

\* FsInfo32.parse(data, offset)
FsInfo32Parse(data, offset) ==
    IF Len(data) < offset + FAT_SECTOR_SIZE THEN Raise("FATError", <<>>)
    ELSE IF Slice(data, offset, offset + 4) /= FSI_LEAD_SIGNATURE THEN Raise("FATError", <<>>)
    ELSE IF Slice(data, offset + 484, offset + 488) /= FSI_FSNFO_SIGNATURE
    THEN Raise("FATError", <<>>)
    ELSE IF Slice(data, offset + 508, offset + 512) /= FSI_TRAIL_SIGNATURE
    THEN Raise("FATError", <<>>)
    ELSE Ok([free_clusters     |-> Slice(data, offset + 488, offset + 492),
             next_free_cluster |-> Slice(data, offset + 492, offset + 496)])

\* the 26 name bytes of a long-name entry: name0 + name1 + name2
LfnName(data, offset) ==
    Slice(data, offset + 1, offset + 11) \o Slice(data, offset + 14, offset + 26)
    \o Slice(data, offset + 28, offset + 32)

\* the inner loop of RootEntry.parse over the long-name entries in front of
\* a short-name entry; acc carries long_name, long_name_cnt, long_name_crc
RECURSIVE ParseLongName(_, _, _)
ParseLongName(data, offset, acc) ==
    IF offset + 11 >= Len(data) THEN [acc EXCEPT !.tag = "IndexError"]
    ELSE IF At(data, offset + 11) /= ATTR_LONG_FILE_NAME THEN [acc EXCEPT !.offset = offset]
    ELSE IF Len(data) < offset + DIR_ENTRY_SIZE THEN [acc EXCEPT !.tag = "struct.error"]
    ELSE LET cnt   == At(data, offset)
             crc   == At(data, offset + 13)
             first == BitAnd(cnt, 64) /= 0
         IN  IF ~first /\ (acc.cnt /= cnt \/ acc.crc /= crc)
             THEN [acc EXCEPT !.tag = "FATError"]
             ELSE ParseLongName(data, offset + DIR_ENTRY_SIZE,
                     [acc EXCEPT !.cnt  = (IF first THEN BitAnd(cnt, 63) ELSE acc.cnt) - 1,
                                 !.crc  = IF first THEN crc ELSE acc.crc,
                                 !.name = LfnName(data, offset) \o acc.name])

\* bytes.rstrip(b'\xFF\xFF'): every trailing 0xFF byte is removed
RECURSIVE RstripFF(_)
RstripFF(b) ==
    IF b /= <<>> /\ b[Len(b)] = 255 THEN RstripFF(SubSeq(b, 1, Len(b) - 1)) ELSE b

\* bytes.decode('UTF-16-LE'): an odd number of bytes or a surrogate without
\* its partner raises; a surrogate pair gives one code point
RECURSIVE Utf16Points(_)
Utf16Points(units) ==
    IF units = <<>> THEN Ok(<<>>)
    ELSE LET u == Head(units)
         IN  IF u \in 55296..56319
             THEN IF Len(units) >= 2 /\ units[2] \in 56320..57343
                  THEN LET rest == Utf16Points(Tail(Tail(units)))
                       IN  IF rest.tag /= "ok" THEN rest
                           ELSE Ok(<<65536 + (u - 55296) * 1024 + (units[2] - 56320)>> \o rest.val)
                  ELSE Raise("UnicodeDecodeError", <<>>)
             ELSE IF u \in 56320..57343 THEN Raise("UnicodeDecodeError", <<>>)
             ELSE LET rest == Utf16Points(Tail(units))
                  IN  IF rest.tag /= "ok" THEN rest ELSE Ok(<<u>> \o rest.val)

Utf16LEDecode(b) ==
    IF Len(b) % 2 = 1 THEN Raise("UnicodeDecodeError", <<>>)
    ELSE Utf16Points([i \in 1..(Len(b) \div 2) |-> b[2 * i - 1] + 256 * b[2 * i]])

\* the name RootEntry.parse gives a file: the short name unless the long-name
\* checksum equals lfn_crc(short_name)
FileName(short_name, long_name, long_name_crc) ==
    IF long_name_crc /= lfn_crc(short_name) THEN Utf8Decode(short_name)
    ELSE LET name == Utf16LEDecode(RstripFF(long_name))
         IN  IF name.tag /= "ok" THEN name ELSE Ok(StripNul(name.val))

\* the outer loop of RootEntry.parse: the FileEntry objects appended from
\* offset on
RECURSIVE ParseFiles(_, _)
ParseFiles(data, offset) ==
    IF offset >= Len(data) THEN Raise("IndexError", <<>>)
    ELSE IF At(data, offset) = 0 THEN Ok(<<>>)
    ELSE IF offset + 1 >= Len(data) THEN Raise("IndexError", <<>>)
    ELSE IF At(data, offset + 1) = 0 THEN Ok(<<>>)
    ELSE LET lfn == ParseLongName(data, offset,
                        [tag |-> "ok", offset |-> offset, name |-> <<>>, cnt |-> 0, crc |-> 0])
             at  == lfn.offset
         IN  IF lfn.tag /= "ok" THEN Raise(lfn.tag, <<>>)
             ELSE IF Len(data) < at + DIR_ENTRY_SIZE THEN Raise("struct.error", <<>>)
             ELSE LET name        == FileName(Slice(data, at, at + 11), lfn.name, lfn.crc)
                      creation_dt == decode_datetime(UnpackLE(data, at + 16, 2),
                                         UnpackLE(data, at + 14, 2), At(data, at + 13))
                      modified_dt == decode_datetime(UnpackLE(data, at + 24, 2),
                                         UnpackLE(data, at + 22, 2), 0)
                      last_access == decode_date(UnpackLE(data, at + 18, 2))
                  IN  IF name.tag /= "ok" THEN Raise(name.tag, <<>>)
                      ELSE IF creation_dt.tag /= "ok" \/ modified_dt.tag /= "ok"
                              \/ last_access.tag /= "ok"
                      THEN Raise("ValueError", <<>>)
                      ELSE LET rest == ParseFiles(data, at + DIR_ENTRY_SIZE)
                           IN  IF rest.tag /= "ok" THEN rest
                               ELSE Ok(<<[name             |-> name.val,
                                          attributes       |-> At(data, at + 11),
                                          file_size        |-> UnpackLE(data, at + 28, 4),
                                          first_cluster    |-> UnpackLE(data, at + 20, 2) * 65536
                                                               + UnpackLE(data, at + 26, 2),
                                          creation_dt      |-> creation_dt.val,
                                          modified_dt      |-> modified_dt.val,
                                          last_access_date |-> last_access.val]>> \o rest.val)

\* RootEntry.parse(data, offset)
RootEntryParse(data, offset) ==
    IF Len(data) < offset + DIR_ENTRY_SIZE THEN Raise("FATError", <<>>)
    ELSE IF At(data, offset + 11) /= ATTR_VOLUME_ID THEN Raise("FATError", <<>>)
    ELSE LET name        == Utf8Decode(Slice(data, offset, offset + 11))
             creation_dt == decode_datetime(UnpackLE(data, offset + 16, 2),
                                UnpackLE(data, offset + 14, 2), At(data, offset + 13))
             modified_dt == decode_datetime(UnpackLE(data, offset + 24, 2),
                                UnpackLE(data, offset + 22, 2), 0)
             last_access == decode_date(UnpackLE(data, offset + 18, 2))
             files       == ParseFiles(data, offset + DIR_ENTRY_SIZE)
         IN  IF name.tag /= "ok" THEN Raise(name.tag, <<>>)
             ELSE IF creation_dt.tag /= "ok" \/ modified_dt.tag /= "ok" \/ last_access.tag /= "ok"
             THEN Raise("ValueError", <<>>)
             ELSE IF files.tag /= "ok" THEN files
             ELSE Ok([volume_name |-> name.val, creation_dt |-> creation_dt.val,
                      modified_dt |-> modified_dt.val, last_access_date |-> last_access.val,
                      files |-> files.val])

\* encode_time: reads obj_time.hours, .minutes and .seconds; a datetime.time
\* has the attributes hour, minute, second and microsecond
encode_time(obj_time) ==
    IF {"hours", "minutes", "seconds"} \subseteq DOMAIN obj_time
    THEN Ok(BitOr(BitOr(Shl(obj_time.hours, 11), Shl(BitAnd(obj_time.minutes, 31), 5)),
                  BitAnd(obj_time.seconds \div 2, 15)))
    ELSE Raise("AttributeError", 0)

\* encode_date: reads obj_date.years, .mounts and .days; a datetime.date has
\* the attributes year, month and day
encode_date(obj_date) ==
    IF {"years", "mounts", "days"} \subseteq DOMAIN obj_date
    THEN Ok(BitOr(BitOr(Shl(obj_date.years - 1980, 9), Shl(BitAnd(obj_date.mounts, 7), 5)),
                  BitAnd(obj_date.days, 15)))
    ELSE Raise("AttributeError", 0)

\* RootEntry.short_name(name).encode() for a name of ASCII characters
short_name(name) ==
    LET dots     == {i \in DOMAIN name : name[i] = 46}
        last_dot == CHOOSE i \in dots : \A j \in dots : j <= i
        last_len == IF dots = {} THEN Len(name) ELSE Len(name) - last_dot
        cut      == SubSeq(name, 1, IF Len(name) < 6 THEN Len(name) ELSE 6)
        tilde    == [i \in DOMAIN cut |-> IF cut[i] \in 97..122 THEN cut[i] - 32 ELSE cut[i]]
                    \o <<126, 49, 32, 32, 32>>
    IN  IF Cardinality(dots) > 1 \/ last_len > 3 THEN Ok(tilde)
        \* file_name[1] of a name without a dot
        ELSE IF dots = {} THEN Raise("IndexError", <<>>)
        ELSE IF Len(name) - 1 > 11 THEN Ok(tilde)
        ELSE Ok(SubSeq(name, 1, last_dot - 1) \o SubSeq(name, last_dot + 1, Len(name)))

\* the while loop of RootEntry.export that emits the long-name entries of
\* one file; pack('B', snum) raises struct.error for a snum below 0
RECURSIVE LfnEmit(_, _, _, _)
LfnEmit(long_name, offset, snum, sn_crc) ==
    LET n      == Len(long_name)
        \* the bounds of long_name[offset: offset + LFN_BYTES]
        idx(i) == IF i < 0 THEN (IF i + n < 0 THEN 0 ELSE i + n) ELSE i
        name   == Slice(long_name, idx(offset), idx(offset + 26))
        entry  == <<snum>> \o PackS(Slice(name, 0, 10), 10) \o <<ATTR_LONG_FILE_NAME, 0, sn_crc>>
                  \o PackS(Slice(name, 10, 22), 12) \o <<0, 0>> \o PackS(Slice(name, 22, 26), 4)
    IN  IF snum \notin 0..255 THEN Raise("struct.error", <<>>)
        ELSE IF offset = 0 THEN Ok(entry)
        ELSE LET rest == LfnEmit(long_name, offset - 26,
                             (IF BitAnd(snum, 64) /= 0 THEN BitAnd(snum, 63) ELSE snum) - 1, sn_crc)
             IN  IF rest.tag /= "ok" THEN rest ELSE Ok(entry \o rest.val)

\* pack(SFN_FORMAT, ...) of RootEntry.export, for the label and for a file;
\* time(dt) and date(dt) are datetime.time() and datetime.date()
SfnPack(name, attributes, e, first_cluster, file_size) ==
    LET time(dt) == [hour |-> dt.hour, minute |-> dt.minute, second |-> dt.second,
                     microsecond |-> dt.microsecond]
        date(dt) == [year |-> dt.year, month |-> dt.month, day |-> dt.day]
        ctime    == encode_time(time(e.creation_dt))
        cdate    == encode_date(date(e.creation_dt))
        adate    == encode_date(e.last_access_date)
        mtime    == encode_time(time(e.modified_dt))
        mdate    == encode_date(date(e.modified_dt))
    IN  IF \E r \in {ctime, cdate, adate, mtime, mdate} : r.tag /= "ok"
        THEN Raise("AttributeError", <<>>)
        ELSE Ok(PackS(name, 11) \o <<attributes, 0, e.creation_dt.microsecond \div 1000>>
                \o PackLE(ctime.val, 2) \o PackLE(cdate.val, 2) \o PackLE(adate.val, 2)
                \o PackLE(first_cluster \div 65536, 2) \o PackLE(mtime.val, 2)
                \o PackLE(mdate.val, 2) \o PackLE(first_cluster % 65536, 2)
                \o PackLE(file_size, 4))

\* the for loop of RootEntry.export over the files
RECURSIVE ExportFiles(_)
ExportFiles(files) ==
    IF files = <<>> THEN Ok(<<>>)
    ELSE LET f      == Head(files)
             sn     == short_name(f.name)
             long   == Utf16LE(f.name)
             \* b'\xFF' * (LFN_BYTES - long_name_size): nothing for a negative count
             padded == IF Len(long) % 26 /= 0 /\ Len(long) < 26
                       THEN long \o [i \in 1..(26 - Len(long)) |-> 255] ELSE long
             lfn    == LfnEmit(padded, Len(padded) - 26, BitOr(Len(padded) \div 26, 64),
                               lfn_crc(sn.val))
             sfn    == SfnPack(sn.val, f.attributes, f, f.first_cluster, f.file_size)
             rest   == ExportFiles(Tail(files))
         IN  IF sn.tag /= "ok" THEN sn
             \* assert len(name) == 11 in lfn_crc
             ELSE IF Len(sn.val) /= 11 THEN Raise("AssertionError", <<>>)
             ELSE IF lfn.tag /= "ok" THEN lfn
             ELSE IF sfn.tag /= "ok" THEN sfn
             ELSE IF rest.tag /= "ok" THEN rest
             ELSE Ok(lfn.val \o sfn.val \o rest.val)

\* RootEntry.export: the volume-label entry, then the entries of the files
RootEntryExport(root) ==
    LET label == SfnPack(root.volume_name, ATTR_VOLUME_ID, root, 0, 0)
        files == ExportFiles(root.files)
    IN  IF label.tag /= "ok" THEN label
        ELSE IF files.tag /= "ok" THEN files
        ELSE Ok(label.val \o files.val)

\* stream.seek(pos) followed by stream.read(n): a read at or past the end of
\* the stream returns fewer bytes, or none
ReadAt(io, pos, n) == Slice(io, pos, pos + n)

\* FAT_BITS of get_fat_bits, keyed by the characters of fs_type
FAT_BITS ==
    (<<70, 65, 84, 49, 50>> :> 12) @@ (<<70, 65, 84, 49, 54>> :> 16) @@ (<<70, 65, 84, 51, 50>> :> 32)

\* get_fat_bits(stream, offset): BootSector.parse is tried only when
\* BootSector32.parse raises
get_fat_bits(io, offset) ==
    LET sector == ReadAt(io, offset, FAT_SECTOR_SIZE)
        wide   == BootSectorParse(TRUE, sector, 0)
        boot   == IF wide.tag = "ok" THEN wide ELSE BootSectorParse(FALSE, sector, 0)
    IN  IF boot.tag /= "ok" THEN Raise(boot.tag, 0)
        ELSE IF boot.val.fs_type \notin DOMAIN FAT_BITS THEN Raise("FATError", 0)
        ELSE Ok(FAT_BITS[boot.val.fs_type])

\* FAT.__init__ and the FAT.load it ends with.  The reads that follow a read
\* without a seek of their own (the FsInfo32 sector, the second and later
\* FAT copies) start where the previous read ended.
FATload(io, io_offset, bits) ==
    LET wide == bits = 32
        boot == BootSectorParse(wide, ReadAt(io, io_offset, FAT_SECTOR_SIZE), 0)
    IN  IF boot.tag /= "ok" THEN Raise(boot.tag, <<>>)
        ELSE LET b        == boot.val
                 fsi      == FsInfo32Parse(
                                 ReadAt(io, io_offset + FAT_SECTOR_SIZE, FAT_SECTOR_SIZE), 0)
                 copy     == BootSectorParse(TRUE,
                                 ReadAt(io, io_offset + b.bytes_per_sector * b.boot_copy_sector,
                                        FAT_SECTOR_SIZE), 0)
                 fat_blob == ReadAt(io, io_offset + fat_offset(b), fat_size(b))
                 differ   == \E n \in 1..(b.fat_copies - 1) :
                                 ReadAt(io, io_offset + fat_offset(b) + n * fat_size(b),
                                        fat_size(b)) /= fat_blob
                 root_dir == RootEntryParse(
                                 ReadAt(io, io_offset + root_offset(b), cluster_size(b)), 0)
             IN  IF wide /\ fsi.tag /= "ok" THEN Raise(fsi.tag, <<>>)
                 ELSE IF wide /\ b.boot_copy_sector /= 0 /\ copy.tag /= "ok"
                 THEN Raise(copy.tag, <<>>)
                 ELSE IF wide /\ b.boot_copy_sector /= 0 /\ ~BootSector32Eq(b, copy.val)
                 THEN Raise("FATError", <<>>)
                 ELSE IF differ THEN Raise("FATError", <<>>)
                 \* self.boot_sector.root_offset on a BootSector32
                 ELSE IF wide THEN Raise("AttributeError", <<>>)
                 ELSE IF root_dir.tag /= "ok" THEN Raise(root_dir.tag, <<>>)
                 ELSE Ok([io_offset |-> io_offset, bits |-> bits, boot_sector |-> b,
                          fat_blob |-> fat_blob, root_dir |-> root_dir.val])

\* the calls FAT.load makes on the stream, in order, up to the exception it
\* raises or to its end
FATloadCalls(io, io_offset, bits) ==
    LET seek(pos) == [op |-> "seek", pos |-> pos]
        read(n)   == [op |-> "read", size |-> n]
        wide      == bits = 32
        boot      == BootSectorParse(wide, ReadAt(io, io_offset, FAT_SECTOR_SIZE), 0)
        b         == boot.val
        fsi       == FsInfo32Parse(ReadAt(io, io_offset + FAT_SECTOR_SIZE, FAT_SECTOR_SIZE), 0)
        head      == <<seek(io_offset), read(FAT_SECTOR_SIZE)>>
                     \o (IF wide THEN <<read(FAT_SECTOR_SIZE)>> ELSE <<>>)
        copy_at   == io_offset + b.bytes_per_sector * b.boot_copy_sector
        copy      == BootSectorParse(TRUE, ReadAt(io, copy_at, FAT_SECTOR_SIZE), 0)
        backup    == IF wide /\ b.boot_copy_sector /= 0
                     THEN <<seek(copy_at), read(FAT_SECTOR_SIZE)>> ELSE <<>>
        table     == <<seek(io_offset + fat_offset(b)), read(fat_size(b))>>
        differing == {n \in 1..(b.fat_copies - 1) :
                         ReadAt(io, io_offset + fat_offset(b) + n * fat_size(b), fat_size(b))
                           /= ReadAt(io, io_offset + fat_offset(b), fat_size(b))}
        compared  == IF differing = {} THEN b.fat_copies - 1
                     ELSE CHOOSE n \in differing : \A k \in differing : n <= k
        copies    == [n \in 1..compared |-> read(fat_size(b))]
    IN  IF boot.tag /= "ok" THEN <<seek(io_offset), read(FAT_SECTOR_SIZE)>>
        ELSE IF wide /\ fsi.tag /= "ok" THEN head
        ELSE IF wide /\ b.boot_copy_sector /= 0
                /\ (copy.tag /= "ok" \/ ~BootSector32Eq(b, copy.val))
        THEN head \o backup
        ELSE IF differing /= {} \/ wide THEN head \o backup \o table \o copies
        ELSE head \o backup \o table \o copies
             \o <<seek(io_offset + root_offset(b)), read(cluster_size(b))>>

\* one pass of the while loop of FAT._get_file_clusters: the value appended
\* ("next"), the end of the loop ("break") or the exception raised.  For 16
\* and 32 bits value is the tuple unpack_from returns: it never equals
\* eof_mark, and as fat_index it makes the next unpack_from raise TypeError.
ClusterLookup(f, fat_index, tuple) ==
    LET blob == f.fat_blob
    IN  IF f.bits = 12
        THEN LET blob_index == fat_index + fat_index \div 2
             IN  IF blob_index >= Len(blob) THEN [tag |-> "break"]
                 ELSE IF blob_index + 1 >= Len(blob) THEN [tag |-> "IndexError"]
                 ELSE LET value == IF fat_index % 2 = 1
                                   THEN BitOr(Shr(At(blob, blob_index), 4),
                                              Shl(At(blob, blob_index + 1), 4))
                                   ELSE BitOr(At(blob, blob_index),
                                              Shl(BitAnd(At(blob, blob_index + 1), 15), 8))
                      IN  IF value = EOF_MARK(f.bits) THEN [tag |-> "break"]
                          ELSE [tag |-> "next", value |-> value, tuple |-> FALSE]
        ELSE LET width == f.bits \div 8
             IN  IF tuple THEN [tag |-> "TypeError"]
                 ELSE IF Len(blob) - fat_index * width < width THEN [tag |-> "struct.error"]
                 ELSE [tag |-> "next", value |-> UnpackLE(blob, fat_index * width, width),
                       tuple |-> TRUE]

\* FAT._get_data_cluster_offset
DataClusterOffset(f, cluster) ==
    f.io_offset + data_offset(f.boot_sector) + (cluster - 2) * cluster_size(f.boot_sector)

\* the for loop of FAT.export_file over file_clusters
RECURSIVE ReadClusters(_, _, _, _)
ReadClusters(io, f, file_clusters, file_size) ==
    IF file_clusters = <<>> \/ file_size = 0 THEN Ok(<<>>)
    ELSE LET offset == DataClusterOffset(f, Head(file_clusters))
             size   == IF cluster_size(f.boot_sector) < file_size
                       THEN cluster_size(f.boot_sector) ELSE file_size
             rest   == ReadClusters(io, f, Tail(file_clusters), file_size - size)
         IN  IF offset < 0 THEN Raise("ValueError", <<>>)
             ELSE IF rest.tag /= "ok" THEN rest
             ELSE Ok(ReadAt(io, offset, size) \o rest.val)

\* the calls the for loop of FAT.export_file makes on the stream
RECURSIVE ExportCalls(_, _, _)
ExportCalls(f, file_clusters, file_size) ==
    IF file_clusters = <<>> \/ file_size = 0 THEN <<>>
    ELSE LET offset == DataClusterOffset(f, Head(file_clusters))
             size   == IF cluster_size(f.boot_sector) < file_size
                       THEN cluster_size(f.boot_sector) ELSE file_size
         IN  IF offset < 0 THEN <<[op |-> "seek", pos |-> offset]>>
             ELSE <<[op |-> "seek", pos |-> offset], [op |-> "read", size |-> size]>>
                  \o ExportCalls(f, Tail(file_clusters), file_size - size)

(* Volumes as a formatter lays them out.                                   *)

\* a 12-bit FAT: two entries in three bytes
RECURSIVE Pack12(_)
Pack12(entries) ==
    IF entries = <<>> THEN <<>>
    ELSE LET a == entries[1]
             b == IF Len(entries) >= 2 THEN entries[2] ELSE 0
         IN  <<a % 256, (a \div 256) + (b % 16) * 16, b \div 16>>
             \o Pack12(IF Len(entries) >= 2 THEN Tail(Tail(entries)) ELSE <<>>)

\* a 16- or 32-bit FAT
RECURSIVE PackWide(_, _)
PackWide(entries, width) ==
    IF entries = <<>> THEN <<>>
    ELSE PackLE(Head(entries), width) \o PackWide(Tail(entries), width)

\* one FAT sector holding the entries 0, 1, 2, ...
FatSector(bits, entries) ==
    PackS(IF bits = 12 THEN Pack12(entries) ELSE PackWide(entries, bits \div 8), FAT_SECTOR_SIZE)

\* a short-name entry (RootEntry.SFN_FORMAT), its dates 5 March 2019 and
\* its times 10:30:20 as packed words
SfnEntry(name, attr, first_cluster, file_size) ==
    name \o <<attr, 0, 0>> \o PackLE(21450, 2) \o PackLE(20069, 2)
    \o PackLE(20069, 2) \o PackLE(first_cluster \div 65536, 2) \o PackLE(21450, 2)
    \o PackLE(20069, 2) \o PackLE(first_cluster % 65536, 2) \o PackLE(file_size, 4)

\* a long-name entry (RootEntry.LFN_FORMAT) holding 13 code units
LfnEntry(seq, units, crc) ==
    <<seq>> \o Utf16LE(SubSeq(units, 1, 5)) \o <<ATTR_LONG_FILE_NAME, 0, crc>>
    \o Utf16LE(SubSeq(units, 6, 11)) \o <<0, 0>> \o Utf16LE(SubSeq(units, 12, 13))

\* a name cut into 13-unit fragments: a name that does not fill its last
\* fragment is ended by 0x0000 and filled with 0xFFFF
LfnPadded(units) ==
    IF Len(units) % 13 = 0 THEN units
    ELSE units \o <<0>> \o [i \in 1..(12 - (Len(units) % 13)) |-> 65535]

\* the long-name entries in front of a short-name entry, last fragment first;
\* crcs[k] is the checksum stored in fragment k
RECURSIVE LfnChain(_, _, _)
LfnChain(padded, crcs, k) ==
    IF k = 0 THEN <<>>
    ELSE LfnEntry(IF 13 * k = Len(padded) THEN k + 64 ELSE k,
                  SubSeq(padded, 13 * k - 12, 13 * k), crcs[k])
         \o LfnChain(padded, crcs, k - 1)

\* the short name README  TXT
ShortReadme == <<82, 69, 65, 68, 77, 69, 32, 32, 84, 88, 84>>

\* "Readme.txt"
LongReadme == <<82, 101, 97, 100, 109, 101, 46, 116, 120, 116>>

\* "LongFileName01.txt": two fragments
LongTwo == <<76, 111, 110, 103, 70, 105, 108, 101, 78, 97, 109, 101, 48, 49, 46, 116, 120, 116>>

\* "Readme-12.tx" followed by U+FF21 (fullwidth A): 13 code units, one full
\* fragment
LongWide == <<82, 101, 97, 100, 109, 101, 45, 49, 50, 46, 116, 120, 65313>>

\* a root directory: the volume label BOOT, README.TXT (1300 bytes from
\* cluster 2) behind the long-name entries lfn, DATA.BIN (512 bytes in
\* cluster 5), the empty EMPTY.TXT, and unused entries
RootDir(lfn) ==
    PackS(SfnEntry(<<66, 79, 79, 84, 32, 32, 32, 32, 32, 32, 32>>, ATTR_VOLUME_ID, 0, 0) \o lfn
          \o SfnEntry(ShortReadme, 32, 2, 1300)
          \o SfnEntry(<<68, 65, 84, 65, 32, 32, 32, 32, 66, 73, 78>>, 32, 5, 512)
          \o SfnEntry(<<69, 77, 80, 84, 89, 32, 32, 32, 84, 88, 84>>, 32, 0, 0),
          FAT_SECTOR_SIZE)

\* "ZEROBBF TXT": a short name whose lfn_crc is 0
ZeroCrcName == <<90, 69, 82, 79, 66, 66, 70, 32, 84, 88, 84>>

\* a root directory that fills its sector: the volume label BOOT and 15
\* times the same entry, no entry with a first byte of 0 behind them
FullDir(entry) ==
    LET RECURSIVE Times(_)
        Times(n) == IF n = 0 THEN <<>> ELSE entry \o Times(n - 1)
    IN  SfnEntry(<<66, 79, 79, 84, 32, 32, 32, 32, 32, 32, 32>>, ATTR_VOLUME_ID, 0, 0)
        \o Times(FAT_SECTOR_SIZE \div DIR_ENTRY_SIZE - 1)

\* the long-name entries of README.TXT for a name and its stored checksums
Lfn(units, crcs) == LfnChain(LfnPadded(units), crcs, Len(LfnPadded(units)) \div 13)

ReadmeCrc == lfn_crc(ShortReadme)

\* the data cluster number k
ClusterData(k) == [i \in 1..FAT_SECTOR_SIZE |-> (k * 37 + i) % 256]

\* a FAT12 or FAT16 volume: boot sector labelled FAT12 or FAT16, two FAT
\* copies, root directory of 16 entries, the data clusters 2..5
Volume(bits, entries, dir) ==
    BootSectorExport(BootSectorNew(FALSE, <<70, 65, 84, 49, IF bits = 12 THEN 50 ELSE 54>>, 1, 1, 16, 0))
    \o FatSector(bits, entries) \o FatSector(bits, entries) \o dir
    \o ClusterData(2) \o ClusterData(3) \o ClusterData(4) \o ClusterData(5)

\* a FAT32 volume: boot sector, FsInfo32 sector, the backup boot sector at
\* sector 2 when boot_copy_sector is not 0, two FAT copies, the root
\* directory in cluster 2
Volume32(boot_copy_sector, backup) ==
    BootSectorExport(BootSectorNew(TRUE, <<70, 65, 84, 51, 50>>, 3, 1, 0, boot_copy_sector))
    \o FsInfo32Export(3, 3) \o backup
    \o FatSector(32, <<268435448, 268435455, 268435455>>)
    \o FatSector(32, <<268435448, 268435455, 268435455>>) \o RootDir(<<>>)

\* a FAT12 volume whose boot sector announces three FAT copies, the third
\* one holding the entries third
Volume3(entries, third) ==
    BootSectorExport([BootSectorNew(FALSE, <<70, 65, 84, 49, 50>>, 1, 1, 16, 0)
                         EXCEPT !.fat_copies = 3])
    \o FatSector(12, entries) \o FatSector(12, entries) \o FatSector(12, third)
    \o RootDir(<<>>)
    \o ClusterData(2) \o ClusterData(3) \o ClusterData(4) \o ClusterData(5)

\* README.TXT in clusters 2, 3, 4 (entry 4 holds 0xFF8), DATA.BIN in cluster
\* 5 (entry 5 holds 0xFFF)
Chain12 == <<4088, 4095, 3, 4, 4088, 4095>>

\* entries 2 and 3 point at each other
Cycle12 == <<4088, 4095, 3, 2, 4088, 4095>>

\* the streams handed to FAT(), each with the offset of its volume
FatDisks ==
    {[io |-> Volume(12, Chain12, RootDir(lfn)), offset |-> 0] :
        lfn \in {<<>>,
                 Lfn(LongReadme, <<ReadmeCrc>>),
                 Lfn(LongReadme, <<(ReadmeCrc + 1) % 256>>),
                 Lfn(LongTwo, <<ReadmeCrc, ReadmeCrc>>),
                 Lfn(LongTwo, <<ReadmeCrc, (ReadmeCrc + 1) % 256>>),
                 Lfn(LongWide, <<ReadmeCrc>>)}}
    \cup {[io |-> Zeros(FAT_SECTOR_SIZE) \o Volume(12, Chain12, RootDir(<<>>)),
           offset |-> FAT_SECTOR_SIZE],
          [io |-> Volume(12, Cycle12, RootDir(<<>>)), offset |-> 0],
          \* one byte of the second FAT copy changed
          [io |-> [Volume(12, Chain12, RootDir(<<>>)) EXCEPT ![2 * FAT_SECTOR_SIZE + 5] = 0],
           offset |-> 0],
          \* the second name byte of the second file (DATA.BIN) set to 0
          [io |-> [Volume(12, Chain12, RootDir(<<>>))
                      EXCEPT ![3 * FAT_SECTOR_SIZE + 2 * DIR_ENTRY_SIZE + 2] = 0],
           offset |-> 0],
          \* byte 82, where a FAT32 boot sector has its fs_type, is not ASCII
          [io |-> [Volume(12, Chain12, RootDir(<<>>)) EXCEPT ![83] = 255], offset |-> 0],
          \* README.TXT and a file whose short name has the checksum 0
          [io |-> Volume(12, Chain12,
                         PackS(SfnEntry(<<66, 79, 79, 84, 32, 32, 32, 32, 32, 32, 32>>,
                                        ATTR_VOLUME_ID, 0, 0)
                               \o SfnEntry(ShortReadme, 32, 2, 1300)
                               \o SfnEntry(ZeroCrcName, 32, 5, 512), FAT_SECTOR_SIZE)),
           offset |-> 0],
          \* directories without an end marker: 15 files, 15 long-name entries
          [io |-> Volume(12, Chain12, FullDir(SfnEntry(ShortReadme, 32, 2, 1300))),
           offset |-> 0],
          [io |-> Volume(12, Chain12, FullDir(LfnEntry(65, LongWide, ReadmeCrc))),
           offset |-> 0],
          [io |-> Volume3(Chain12, Chain12), offset |-> 0],
          [io |-> Volume3(Chain12, Cycle12), offset |-> 0],
          [io |-> Volume(16, <<65528, 65535, 3, 4, 65528, 65535>>, RootDir(<<>>)), offset |-> 0],
          [io |-> Volume32(0, Zeros(FAT_SECTOR_SIZE)), offset |-> 0],
          [io |-> Volume32(2, BootSectorExport(
                                  BootSectorNew(TRUE, <<70, 65, 84, 51, 50>>, 3, 1, 0, 2))),
           offset |-> 0],
          [io |-> Volume32(2, BootSectorExport(
                                  BootSectorNew(TRUE, <<70, 65, 84, 51, 50>>, 3, 2, 0, 2))),
           offset |-> 0]}

\* the longest chain a _get_file_clusters loop is followed to
MaxChain == 342

FATInit ==
    /\ \E disk \in FatDisks : fio = disk
    /\ fat = [tag |-> "none"]
    /\ fwalk = [pc |-> "idle"]
    /\ fres = [op |-> "none", tag |-> "none"]
    /\ MBRIdle
    /\ GPTIdle

\* fat = FAT(stream, offset, sectors, bits)
FATLoad(bits) ==
    /\ fat.tag = "none" /\ fres.op = "none"
    /\ LET r == FATload(fio.io, fio.offset, bits)
       IN  /\ fat' = IF r.tag = "ok" THEN r ELSE fat
           /\ fres' = [op |-> "load", tag |-> r.tag, bits |-> bits,
                       calls |-> FATloadCalls(fio.io, fio.offset, bits)]
    /\ UNCHANGED <<fio, fwalk, nonFatVars>>

\* BootSector.parse(data, offset) (wide = FALSE) or BootSector32.parse(data,
\* offset) on the bytes of the stream
FATParseBoot(wide, offset) ==
    /\ fat.tag = "none" /\ fres.op = "none"
    /\ fres' = [op |-> "parse_boot", tag |-> BootSectorParse(wide, fio.io, offset).tag,
                wide |-> wide, offset |-> offset]
    /\ UNCHANGED <<fio, fat, fwalk, nonFatVars>>

\* get_fat_bits(stream, offset) on the volume of the stream
FATGetFatBits ==
    /\ fat.tag = "none" /\ fres.op = "none"
    /\ LET r == get_fat_bits(fio.io, fio.offset)
       IN  fres' = [op |-> "fat_bits", tag |-> r.tag, val |-> r.val]
    /\ UNCHANGED <<fio, fat, fwalk, nonFatVars>>

\* fat.root_dir.export()
FATRootExport ==
    /\ fat.tag = "ok" /\ fwalk.pc = "idle"
    /\ LET r == RootEntryExport(fat.val.root_dir)
       IN  fres' = [op |-> "root_export", tag |-> r.tag, val |-> r.val]
    /\ UNCHANGED <<fio, fat, fwalk, nonFatVars>>

\* fat._get_file_clusters(first_cluster) is entered
FATGetFileClusters(first_cluster) ==
    /\ fat.tag = "ok" /\ fwalk.pc = "idle"
    /\ fwalk' = [pc |-> "loop", op |-> "clusters", first_cluster |-> first_cluster,
                 file_size |-> 0, clusters |-> <<first_cluster>>,
                 fat_index |-> first_cluster, tuple |-> FALSE]
    /\ fres' = [op |-> "clusters", tag |-> "running"]
    /\ UNCHANGED <<fio, fat, nonFatVars>>

\* fat.export_file(file_entry) is entered and calls _get_file_clusters
FATExportFile(k) ==
    /\ fat.tag = "ok" /\ fwalk.pc = "idle"
    /\ k \in DOMAIN fat.val.root_dir.files
    /\ LET file_entry == fat.val.root_dir.files[k]
       IN  fwalk' = [pc |-> "loop", op |-> "export_file",
                     first_cluster |-> file_entry.first_cluster,
                     file_size |-> file_entry.file_size,
                     clusters |-> <<file_entry.first_cluster>>,
                     fat_index |-> file_entry.first_cluster, tuple |-> FALSE]
    /\ fres' = [op |-> "export_file", tag |-> "running"]
    /\ UNCHANGED <<fio, fat, nonFatVars>>

\* one pass of the loop of _get_file_clusters; when the loop ends the call
\* returns the chain, and export_file goes on to read the clusters
FATClusterStep ==
    /\ fwalk.pc = "loop" /\ Len(fwalk.clusters) < MaxChain
    /\ LET step == ClusterLookup(fat.val, fwalk.fat_index, fwalk.tuple)
           done == [op |-> fwalk.op, first_cluster |-> fwalk.first_cluster,
                    file_size |-> fwalk.file_size, clusters |-> fwalk.clusters]
       IN  IF step.tag = "next"
           THEN /\ fwalk' = [fwalk EXCEPT !.clusters = Append(@, step.value),
                                          !.fat_index = step.value, !.tuple = step.tuple]
                /\ fres' = fres
           ELSE /\ fwalk' = [pc |-> "idle"]
                /\ fres' = IF step.tag /= "break"
                           THEN [done EXCEPT !.clusters = <<>>] @@ [tag |-> step.tag, val |-> <<>>]
                           ELSE IF fwalk.op = "clusters"
                           THEN done @@ [tag |-> "ok", val |-> fwalk.clusters]
                           ELSE done @@ ReadClusters(fio.io, fat.val, fwalk.clusters,
                                                     fwalk.file_size)
                                @@ [calls |-> ExportCalls(fat.val, fwalk.clusters,
                                                          fwalk.file_size)]
    /\ UNCHANGED <<fio, fat, nonFatVars>>

FATNext ==
    \/ \E bits \in {12, 16, 32} : FATLoad(bits)
    \/ \E wide \in BOOLEAN, offset \in {0, FAT_SECTOR_SIZE} : FATParseBoot(wide, offset)
    \/ FATGetFatBits
    \/ FATRootExport
    \/ \E c \in {0, 2, 3, 5} : FATGetFileClusters(c)
    \/ \E k \in 1..3 : FATExportFile(k)
    \/ FATClusterStep

SpecFAT == FATInit /\ [][FATNext]_vars

(* The date and time fields of a directory entry: a raw 16-bit date and a   *)
(* raw 16-bit time, written by a formatter for the calendar values drawn    *)
(* here, are decoded.                                                       *)

DateYears == {1980, 2000, 2107}

DateMonths == {1, 7, 8, 12}

DateDays == {1, 15, 16, 31}

DateHours == {0, 23}

DateMinutes == {0, 31, 32, 59}

DateSeconds == {0, 30, 32, 58}

\* the raw fields of the FAT on-disk format
RawDate(year, month, day) == (year - 1980) * 512 + month * 32 + day

RawTime(hour, minute, second) == hour * 2048 + minute * 32 + second \div 2

DateInit ==
    /\ \E year \in DateYears, month \in DateMonths, day \in DateDays :
       \E hour \in DateHours, minute \in DateMinutes, second \in DateSeconds :
          fres = [op |-> "none", tag |-> "none",
                  written |-> [year |-> year, month |-> month, day |-> day, hour |-> hour,
                               minute |-> minute, second |-> second, microsecond |-> 0]]
    /\ fio = [io |-> <<>>, offset |-> 0]
    /\ fat = [tag |-> "none"]
    /\ fwalk = [pc |-> "idle"]
    /\ MBRIdle
    /\ GPTIdle

\* decode_date(raw_date)
DecodeDate ==
    /\ fres.op = "none"
    /\ LET w == fres.written
           r == decode_date(RawDate(w.year, w.month, w.day))
       IN  fres' = [op |-> "decode_date", tag |-> r.tag, val |-> r.val, written |-> w]
    /\ UNCHANGED <<fio, fat, fwalk, nonFatVars>>

\* decode_datetime(raw_date, raw_time)
DecodeDatetime ==
    /\ fres.op = "none"
    /\ LET w == fres.written
           r == decode_datetime(RawDate(w.year, w.month, w.day),
                                RawTime(w.hour, w.minute, w.second), 0)
       IN  fres' = [op |-> "decode_datetime", tag |-> r.tag, val |-> r.val, written |-> w]
    /\ UNCHANGED <<fio, fat, fwalk, nonFatVars>>

DateNext == DecodeDate \/ DecodeDatetime

SpecDate == DateInit /\ [][DateNext]_vars

---------------------------------------------------------------------------
(* Claims about the MBR codec.                                             *)

\* the field values the MBR layout can hold
ValidMbrEntry(e) ==
    /\ e.partition_type /= PT_EMPTY
    /\ e.partition_type \in 0..255 /\ e.status \in 0..255
    /\ e.start_head \in 0..255 /\ e.end_head \in 0..255
    /\ e.start_sector \in 0..63 /\ e.end_sector \in 0..63
    /\ e.start_cylinder \in 0..1023 /\ e.end_cylinder \in 0..1023
    /\ e.lba_start >= 0 /\ e.num_sectors >= 0

ValidMbr(m) ==
    /\ Len(m.bootstrap) = 446
    /\ DOMAIN m.partitions \subseteq 0..3
    /\ \A i \in DOMAIN m.partitions : ValidMbrEntry(m.partitions[i])

\* mres is MBR.parse(mbr.export(), ...) read where the sector lies
ParsedOwnExport == mres.tag /= "none" /\ mtamper = "none" /\ mpoff = moff

\* C1: parsing the export of an MBR built from valid field values gives back
\* the same bootstrap, the same populated slots and, slot by slot, the same
\* status, partition type, CHS start, CHS end, lba_start and num_sectors.
C1_RoundTrip ==
    (ParsedOwnExport /\ ValidMbr(mbr)) =>
        /\ mres.tag = "ok"
        /\ mres.val.bootstrap = mbr.bootstrap
        /\ DOMAIN mres.val.partitions = DOMAIN mbr.partitions
        /\ \A i \in DOMAIN mbr.partitions :
              LET a == mres.val.partitions[i]
                  b == mbr.partitions[i]
              IN  /\ a.status = b.status
                  /\ a.partition_type = b.partition_type
                  /\ <<a.start_head, a.start_sector, a.start_cylinder>>
                       = <<b.start_head, b.start_sector, b.start_cylinder>>
                  /\ <<a.end_head, a.end_sector, a.end_cylinder>>
                       = <<b.end_head, b.end_sector, b.end_cylinder>>
                  /\ a.lba_start = b.lba_start
                  /\ a.num_sectors = b.num_sectors

\* a valid MBR with two populated slots, one with a cylinder above 255,
\* has been exported and parsed back
C1_Witness ==
    /\ ParsedOwnExport /\ ValidMbr(mbr) /\ mres.tag = "ok"
    /\ Cardinality(DOMAIN mbr.partitions) >= 2
    /\ \E i \in DOMAIN mbr.partitions : mbr.partitions[i].end_cylinder = 1023
    /\ \E i \in DOMAIN mbr.partitions : mbr.partitions[i].start_cylinder = 256

\* the bytes MBR.parse tests, read straight from the buffer
MbrTooShort == Len(mdata) - mpoff < 512

MbrSignatureAt == At(mdata, mpoff + 510) + 256 * At(mdata, mpoff + 511)

\* C2: MBR.parse raises MBRError exactly when fewer than 512 bytes are
\* available from offset or the 16-bit value at offset+510 is not 0xAA55;
\* a sector with overwritten signature bytes is rejected and a buffer of
\* exactly 512 bytes from offset with the right signature is accepted.
C2_SignatureEnforced ==
    mres.tag /= "none" =>
        /\ mres.tag \in {"ok", "MBRError"}
        /\ mres.tag = "MBRError" <=> (MbrTooShort \/ MbrSignatureAt /= 43605)
        /\ mres.tag = "MBRError" => mres.val = MBRnew(<<>>)
        /\ (mtamper = "signature" /\ mpoff = moff) => mres.tag = "MBRError"
        /\ (Len(mdata) = mpoff + 512 /\ MbrSignatureAt = 43605) => mres.tag = "ok"

\* a full 512-byte sector whose signature bytes were overwritten was rejected
C2_Witness ==
    /\ mres.tag = "MBRError" /\ mtamper = "signature"
    /\ mpoff = moff /\ Len(mdata) = mpoff + 512
    /\ Len(mbr.bootstrap) = 446

---------------------------------------------------------------------------
(* Claims about the GPT codec.                                             *)

\* the image as it was before GPTFlipBit inverted bit gflip
Unflipped ==
    LET pos == 512 + (gflip \div 8) + 1
    IN  [gdata EXCEPT ![pos] = BitXor(@, 2 ^ (gflip % 8))]

\* the bits of the header-CRC field, bytes 16..19
CrcFieldBits == (8 * 16)..(8 * 20 - 1)

\* C3: when one bit of an accepted 92-byte header is inverted outside the
\* header-CRC field (bytes 16..19), bits of the reserved field at bytes
\* 20..23 included, Header.parse and GPT.parse raise instead of returning.
C3_BitFlipRejected ==
    (/\ gorigin = "image" /\ gflip /= -1 /\ gflip \notin CrcFieldBits
     /\ gres.tag /= "none" /\ gpoff = 512
     /\ HeaderParse(Unflipped, gpoff).tag = "ok")
    => (HeaderParse(gdata, gpoff).tag /= "ok" /\ gres.tag /= "ok")

\* the header and the entry array of the bytes GPT.export returned
EmittedHeader == Slice(gdata, 0, GPT_HEADER_SIZE)

EmittedArray == Slice(gdata, 512, 512 + GPT_MAX_PARTITIONS * GPT_ENTRY_SIZE)

\* C4: after slot assignments, dell, clear or field changes, the header that
\* GPT.export emits carries the CRC32 of that header with its CRC field
\* zeroed, and its array-CRC field carries the CRC32 of the entry array
\* emitted by the same export.
C4_ExportRecomputesCrcs ==
    gorigin = "export" =>
        /\ Slice(EmittedHeader, 16, 20)
           = Crc32(Slice(EmittedHeader, 0, 16) \o Zeros(4) \o Slice(EmittedHeader, 20, GPT_HEADER_SIZE))
        /\ Slice(EmittedHeader, 88, 92) = Crc32(EmittedArray)

\* number_of_partition_entries lies in 0..128 and covers every populated slot
HeaderConsistent(g) ==
    /\ EntryCount(g.header) <= GPT_MAX_PARTITIONS
    /\ \A i \in DOMAIN g.partitions : i < EntryCount(g.header)

\* C5: for a GPT whose entry count lies in 0..128 and covers its populated
\* slots, whatever subset of the slots is populated, export succeeds, and
\* parsing the exported bytes succeeds with the same header CRC and the same
\* populated slots.
C5_ExportParseRoundTrip ==
    /\ (glast.op = "export" /\ HeaderConsistent(gpt)) => glast.tag = "ok"
    /\ (/\ gorigin = "export" /\ gres.tag /= "none" /\ gpoff = 0 /\ glast.sector_size = 512
        /\ HeaderConsistent(gpt))
       => /\ gres.tag = "ok"
          /\ HeaderCrc(gres.val.header) = HeaderCrc(gpt.header)
          /\ gres.val.partitions = gpt.partitions

---------------------------------------------------------------------------
(* Claims about the FAT codec.                                             *)

\* entry i of a FAT: for 12 bits the low (even i) or high (odd i) 12 bits of
\* the 16-bit word at byte floor(1.5 * i), else the little-endian integer at
\* byte i * bits / 8
FatEntry(blob, bits, i) ==
    IF bits = 12
    THEN LET word == UnpackLE(blob, i + i \div 2, 2)
         IN  IF i % 2 = 0 THEN word % 4096 ELSE word \div 16
    ELSE UnpackLE(blob, i * (bits \div 8), bits \div 8)

\* entry i lies inside the FAT
InFat(blob, bits, i) == (i * bits) \div 8 + (bits + 7) \div 8 <= Len(blob)

\* the number of entries a FAT can address
FatEntries(blob, bits) == (8 * Len(blob)) \div bits

\* C6: _get_file_clusters(first_cluster) returns first_cluster followed by
\* the successive FAT entries, each below the EOF threshold of the width,
\* and stops in front of the first looked-up value at or above that
\* threshold, for 12, 16 and 32 bits.
C6_ChainExact ==
    (fres.op = "clusters" /\ fres.tag /= "running") =>
        /\ fres.tag = "ok"
        /\ fres.val[1] = fres.first_cluster
        /\ \A k \in 2..Len(fres.val) :
              /\ InFat(fat.val.fat_blob, fat.val.bits, fres.val[k - 1])
              /\ fres.val[k] = FatEntry(fat.val.fat_blob, fat.val.bits, fres.val[k - 1])
              /\ fres.val[k] < EOF_MARK(fat.val.bits)
        /\ LET last == fres.val[Len(fres.val)]
           IN  InFat(fat.val.fat_blob, fat.val.bits, last)
               => FatEntry(fat.val.fat_blob, fat.val.bits, last) >= EOF_MARK(fat.val.bits)

\* C7: the loop of _get_file_clusters ends for every table, a table whose
\* entries point at each other included: the chain never grows beyond the
\* number of entries the table can address.
C7_ChainBounded ==
    fwalk.pc = "loop" => Len(fwalk.clusters) <= FatEntries(fat.val.fat_blob, fat.val.bits)

\* the first n clusters of the chain that starts at cluster c, as the FAT
\* links them
RECURSIVE ChainPrefix(_, _, _, _)
ChainPrefix(blob, bits, c, n) ==
    IF n = 0 \/ c < 2 \/ c >= EOF_MARK(bits) \/ ~InFat(blob, bits, c) THEN <<>>
    ELSE <<c>> \o ChainPrefix(blob, bits, FatEntry(blob, bits, c), n - 1)

\* the clusters a file of file_size bytes needs
ClustersNeeded(file_size) ==
    (file_size + cluster_size(fat.val.boot_sector) - 1) \div cluster_size(fat.val.boot_sector)

\* byte i of a file laid out along chain
FileByte(chain, i) ==
    LET size == cluster_size(fat.val.boot_sector)
    IN  At(fio.io, fat.val.io_offset + data_offset(fat.val.boot_sector)
                   + (chain[((i - 1) \div size) + 1] - 2) * size + ((i - 1) % size))

\* C8: for a file whose chain holds the clusters its size needs, export_file
\* returns exactly file_size bytes, cluster after cluster in chain order, the
\* last cluster cut to the bytes that remain; an empty file gives no bytes.
C8_ExportFileExact ==
    LET chain == ChainPrefix(fat.val.fat_blob, fat.val.bits, fres.first_cluster,
                             ClustersNeeded(fres.file_size))
    IN  (/\ fres.op = "export_file" /\ fres.tag /= "running"
         /\ Len(chain) = ClustersNeeded(fres.file_size))
        => /\ fres.tag = "ok"
           /\ fres.val = [i \in 1..fres.file_size |-> FileByte(chain, i)]

\* the root directory region of a FAT12/16 volume of the layout above
DirBytes == ReadAt(fio.io, fio.offset + 3 * FAT_SECTOR_SIZE, FAT_SECTOR_SIZE)

\* the long-name entries in front of the first file
LfnCount ==
    IF At(DirBytes, DIR_ENTRY_SIZE + 11) /= ATTR_LONG_FILE_NAME THEN 0
    ELSE IF At(DirBytes, 2 * DIR_ENTRY_SIZE + 11) /= ATTR_LONG_FILE_NAME THEN 1
    ELSE 2

StoredCrcs == {At(DirBytes, j * DIR_ENTRY_SIZE + 13) : j \in 1..LfnCount}

FirstShortName ==
    Slice(DirBytes, (1 + LfnCount) * DIR_ENTRY_SIZE, (1 + LfnCount) * DIR_ENTRY_SIZE + 11)

\* the code units of the fragments in ascending sequence order (the last
\* physical entry is fragment 1), without the trailing 0x0000/0xFFFF units
RECURSIVE StripPadding(_)
StripPadding(units) ==
    IF units /= <<>> /\ units[Len(units)] \in {0, 65535}
    THEN StripPadding(SubSeq(units, 1, Len(units) - 1))
    ELSE units

RECURSIVE FragmentUnits(_)
FragmentUnits(j) ==
    IF j = 0 THEN <<>>
    ELSE LET b == LfnName(DirBytes, j * DIR_ENTRY_SIZE)
         IN  [i \in 1..13 |-> b[2 * i - 1] + 256 * b[2 * i]] \o FragmentUnits(j - 1)

\* C9: a short-name entry behind long-name fragments whose stored checksum
\* differs from lfn_crc of the short name parses to the 8.3 short name; with
\* the matching checksum it parses to the fragments joined in ascending
\* sequence order without their padding.
C9_LongNameOrFallback ==
    (fres.op = "load" /\ fres.bits /= 32 /\ LfnCount > 0) =>
        /\ lfn_crc(FirstShortName) \notin StoredCrcs
           => (fres.tag = "ok" /\ fat.val.root_dir.files[1].name = FirstShortName)
        /\ StoredCrcs = {lfn_crc(FirstShortName)}
           => (/\ fres.tag = "ok"
               /\ fat.val.root_dir.files[1].name = StripPadding(FragmentUnits(LfnCount)))

\* the primary boot sector of the stream and the sector its boot_copy_sector
\* names
PrimaryBoot == BootSectorParse(TRUE, ReadAt(fio.io, fio.offset, FAT_SECTOR_SIZE), 0)

BackupBoot ==
    BootSectorParse(TRUE,
        ReadAt(fio.io, fio.offset + PrimaryBoot.val.bytes_per_sector
                                    * PrimaryBoot.val.boot_copy_sector, FAT_SECTOR_SIZE), 0)

\* C10: loading a FAT32 volume whose boot_copy_sector is not 0 raises
\* FATError when the backup boot sector differs from the primary in a parsed
\* field, and completes only when the two agree.
C10_BackupCompared ==
    (/\ fres.op = "load" /\ fres.bits = 32
     /\ PrimaryBoot.tag = "ok" /\ PrimaryBoot.val.boot_copy_sector /= 0
     /\ BackupBoot.tag = "ok")
    => /\ PrimaryBoot.val /= BackupBoot.val => fres.tag = "FATError"
       /\ fres.tag = "ok" => PrimaryBoot.val = BackupBoot.val

\* the boot sector FAT.load parses first, and the i-th FAT copy of the stream
\* (copy 0 is the primary table) as the boot sector locates it
LoadBoot == BootSectorParse(fres.bits = 32, ReadAt(fio.io, fio.offset, FAT_SECTOR_SIZE), 0)

FatCopy(i) ==
    LET b    == LoadBoot.val
        size == b.sectors_per_fat * b.bytes_per_sector
        from == fio.offset + b.reserved_sectors_count * b.bytes_per_sector + i * size
    IN  Slice(fio.io, from, from + size)

CopiesAgree == \A n \in 1..(LoadBoot.val.fat_copies - 1) : FatCopy(n) = FatCopy(0)

\* the steps of FAT.load around the comparison raise no FATError of their
\* own: the FsInfo32 sector and the backup boot sector parse (32 bits), the
\* root directory parses or fails with another exception (12 and 16 bits)
OnlyCopiesCanFail ==
    /\ LoadBoot.tag = "ok"
    /\ IF fres.bits = 32
       THEN /\ FsInfo32Parse(ReadAt(fio.io, fio.offset + FAT_SECTOR_SIZE, FAT_SECTOR_SIZE), 0).tag = "ok"
            /\ LoadBoot.val.boot_copy_sector /= 0 => BackupBoot.tag = "ok"
       ELSE RootEntryParse(ReadAt(fio.io, fio.offset + root_offset(LoadBoot.val),
                                  cluster_size(LoadBoot.val)), 0).tag /= "FATError"

Rebuilt ==
    [bootstrap  |-> mres.val.bootstrap,
     partitions |-> [i \in DOMAIN mres.val.partitions |->
                        LET e == mres.val.partitions[i]
                        IN  MbrEntry(e.status, e.partition_type,
                                     e.start_head, e.start_sector, e.start_cylinder,
                                     e.end_head, e.end_sector, e.end_cylinder,
                                     e.lba_start, e.num_sectors)]]

\* C12: every byte string x that MBR.export returns, for any bootstrap, any
\* populated slots and any entry field values, parses, and the parsed object
\* exports x again; an MBR rebuilt from the parsed bootstrap and the parsed
\* field values exports x as well.
C12_ExportIsFixedPoint ==
    (ParsedOwnExport /\ moff = 0) =>
        /\ mres.tag = "ok"
        /\ MBRexport(mres.val) = mdata
        /\ MBRexport(Rebuilt) = mdata

\* the same round trip for objects built from valid field values and a
\* 446-byte bootstrap
ValidExportIsFixedPoint ==
    (ParsedOwnExport /\ moff = 0 /\ ValidMbr(mbr)) =>
        /\ mres.tag = "ok"
        /\ MBRexport(mres.val) = mdata
        /\ MBRexport(Rebuilt) = mdata

\* the three CHS bytes the layout prescribes for a head, a sector and a
\* cylinder: bits 9..8 of the cylinder lie in bits 7..6 of the second byte
ChsBytes(head, sector, cylinder) ==
    <<head, (sector % 64) + 64 * ((cylinder \div 256) % 4), cylinder % 256>>

\* the sector and the cylinder the layout prescribes for three CHS bytes
ChsOf(bytes) == <<bytes[1], bytes[2] % 64, bytes[3] + 256 * (bytes[2] \div 64)>>

\* the CHS bytes of slot i in the exported sector; at is 1 or 5
SlotChs(i, at) ==
    LET from == moff + MBR_BOOTSTRAP_SIZE + i * MBR_ENTRY_SIZE + at
    IN  Slice(mdata, from, from + 3)

InChsRange(head, sector, cylinder) ==
    head \in 0..255 /\ sector \in 0..63 /\ cylinder \in 0..1023

\* C13: PartitionEntry.export stores each CHS triple as head, (sector & 0x3F)
\* with cylinder bits 9..8 in bits 7..6, cylinder & 0xFF; PartitionEntry.parse
\* decodes sector = byte1 & 0x3F and cylinder = byte2 | ((byte1 & 0xC0) << 2);
\* for heads 0..255, sectors 0..63 and cylinders 0..1023 the parsed start and
\* end CHS equal the exported ones, and 255/63/1023 is stored as FF FF FF.
C13_ChsPacking ==
    (mdata /= <<>> /\ mtamper = "none" /\ Len(mbr.bootstrap) = MBR_BOOTSTRAP_SIZE) =>
        \A i \in DOMAIN mbr.partitions \cap 0..(MBR_MAX_PARTITIONS - 1) :
            LET e == mbr.partitions[i]
            IN  /\ InChsRange(e.start_head, e.start_sector, e.start_cylinder)
                   => SlotChs(i, 1) = ChsBytes(e.start_head, e.start_sector, e.start_cylinder)
                /\ InChsRange(e.end_head, e.end_sector, e.end_cylinder)
                   => SlotChs(i, 5) = ChsBytes(e.end_head, e.end_sector, e.end_cylinder)
                /\ <<e.end_head, e.end_sector, e.end_cylinder>> = <<255, 63, 1023>>
                   => SlotChs(i, 5) = <<255, 255, 255>>
                /\ (ParsedOwnExport /\ e.partition_type /= PT_EMPTY) =>
                      LET q == mres.val.partitions[i]
                      IN  /\ <<q.start_head, q.start_sector, q.start_cylinder>> = ChsOf(SlotChs(i, 1))
                          /\ <<q.end_head, q.end_sector, q.end_cylinder>> = ChsOf(SlotChs(i, 5))
                          /\ InChsRange(e.start_head, e.start_sector, e.start_cylinder)
                             => <<q.start_head, q.start_sector, q.start_cylinder>>
                                  = <<e.start_head, e.start_sector, e.start_cylinder>>
                          /\ InChsRange(e.end_head, e.end_sector, e.end_cylinder)
                             => <<q.end_head, q.end_sector, q.end_cylinder>>
                                  = <<e.end_head, e.end_sector, e.end_cylinder>>

\* an entry ending at 255/63/1023 and starting at cylinder 256, sector 0 has
\* been exported and parsed back
C13_Witness ==
    /\ ParsedOwnExport /\ mres.tag = "ok"
    /\ \E i \in DOMAIN mbr.partitions :
          LET e == mbr.partitions[i]
          IN  /\ <<e.end_head, e.end_sector, e.end_cylinder>> = <<255, 63, 1023>>
              /\ <<e.start_sector, e.start_cylinder>> = <<0, 256>>
              /\ SlotChs(i, 5) = <<255, 255, 255>>
              /\ mres.val.partitions[i].end_cylinder = 1023

\* the partition-type byte of the i-th 16-byte entry of the parsed sector
TypeByte(i) == At(mdata, mpoff + MBR_BOOTSTRAP_SIZE + i * MBR_ENTRY_SIZE + 4)

\* C14: after a successful MBR.parse slot i (0..3) is in the partition map
\* exactly when the partition-type byte of the i-th entry is not 0; len(mbr)
\* is the number of such slots, and mbr[i] of an empty slot is None.
C14_SparseSlots ==
    mres.tag = "ok" =>
        /\ DOMAIN mres.val.partitions \subseteq 0..(MBR_MAX_PARTITIONS - 1)
        /\ \A i \in 0..(MBR_MAX_PARTITIONS - 1) :
              /\ Has(mres.val.partitions, i) <=> TypeByte(i) /= 0
              /\ TypeByte(i) = 0 => MBRgetitem(mres.val, i) = Ok(None)
              /\ TypeByte(i) /= 0 =>
                    /\ MBRgetitem(mres.val, i).tag = "ok"
                    /\ MBRgetitem(mres.val, i).val.partition_type = TypeByte(i)
        /\ MBRlen(mres.val) = Cardinality({i \in 0..(MBR_MAX_PARTITIONS - 1) : TypeByte(i) /= 0})

\* a parsed sector with one used slot and one slot whose type byte is 0 while
\* its other bytes are not
C14_Witness ==
    /\ mres.tag = "ok" /\ MBRlen(mres.val) = 1
    /\ \E i \in 0..(MBR_MAX_PARTITIONS - 1) :
          /\ TypeByte(i) = 0
          /\ Slice(mdata, mpoff + MBR_BOOTSTRAP_SIZE + i * MBR_ENTRY_SIZE,
                   mpoff + MBR_BOOTSTRAP_SIZE + (i + 1) * MBR_ENTRY_SIZE) /= Zeros(MBR_ENTRY_SIZE)
          /\ MBRgetitem(mres.val, i) = Ok(None)

\* mdata is what mbr.export() returned, not yet moved or altered
FreshExport == mdata /= <<>> /\ mtamper = "none" /\ moff = 0

\* the sector layout: bootstrap at 0..446, four 16-byte slots at 446..510 in
\* index order, zero bytes for an absent slot, 55 AA at 510..512
SectorLayout ==
    /\ Len(mdata) = 512
    /\ Slice(mdata, 0, 446) = mbr.bootstrap
    /\ \A i \in 0..3 :
          LET slot == Slice(mdata, 446 + 16 * i, 462 + 16 * i)
          IN  /\ Len(slot) = 16
              /\ ~Has(mbr.partitions, i) => slot = Zeros(16)
              /\ Has(mbr.partitions, i) => slot[5] = mbr.partitions[i].partition_type
    /\ Slice(mdata, 510, 512) = <<85, 170>>

\* C15: for every MBR object made by the constructor, the bootstrap setter,
\* slot assignment, dell and clear, export() returns exactly 512 bytes: the
\* bootstrap at 0..446, four 16-byte slots at 446..510 in index order (zero
\* bytes for an absent slot) and the signature 55 AA at 510..512.
C15_ExportLayout == FreshExport => SectorLayout

\* the number of entries the parsed header announces and the bytes of slot i
\* of the entry array, read straight from the buffer
AnnouncedCount == UnpackLE(gdata, gpoff + 80, 4)

SlotBytes(i) ==
    LET from == gpoff + glast.sector_size + i * GPT_ENTRY_SIZE
    IN  Slice(gdata, from, from + GPT_ENTRY_SIZE)

\* first_lba or last_lba of slot i is not 0
SlotUsed(i) == Slice(SlotBytes(i), 32, 40) /= Zeros(8) \/ Slice(SlotBytes(i), 40, 48) /= Zeros(8)

\* C16: GPT.parse keeps the entry of slot i exactly when first_lba /= 0 or
\* last_lba /= 0; only entries with both at 0 are left out, so an entry with
\* first_lba = 0 and last_lba = 5 is kept.
C16_UsedSlotsKept ==
    gres.tag = "ok" =>
        \A i \in 0..(AnnouncedCount - 1) : i \in DOMAIN gres.val.partitions <=> SlotUsed(i)

\* first_lba and last_lba of slot i are both set
SlotSet(i) == Slice(SlotBytes(i), 32, 40) /= Zeros(8) /\ Slice(SlotBytes(i), 40, 48) /= Zeros(8)

SlotTruncated(i) == Len(gdata) - (gpoff + glast.sector_size + i * GPT_ENTRY_SIZE) < GPT_ENTRY_SIZE

\* C18: Header.parse(data, offset) fails as truncated exactly when
\* len(data) - offset < 92, and gpt.PartitionEntry.parse(data, offset)
\* exactly when len(data) - offset < 128; a record that ends at the last
\* byte of the buffer is accepted.
C18_TruncationExact ==
    gres.tag /= "none" =>
        /\ HeaderParse(gdata, gpoff).tag = "Exception" <=> Len(gdata) - gpoff < GPT_HEADER_SIZE
        /\ (HeaderParse(gdata, gpoff).tag = "ok" /\ AnnouncedCount <= GPT_MAX_PARTITIONS)
           => (gres.tag = "Exception" <=> \E i \in 0..(AnnouncedCount - 1) : SlotTruncated(i))

\* the sector at the parsed offset is complete and ends with 55 AA
SectorSigned ==
    /\ Len(fio.io) >= fres.offset + FAT_SECTOR_SIZE
    /\ Slice(fio.io, fres.offset + 510, fres.offset + 512) = <<85, 170>>

\* the first three bytes of the sector at the parsed offset
SectorJump == Slice(fio.io, fres.offset, fres.offset + 3)

\* C19: BootSector.parse(data, offset) and BootSector32.parse(data, offset)
\* raise FATError whenever the three bytes at data[offset .. offset+3] differ
\* from EB 3C 90, for every offset, and do not reject a sector that starts
\* with EB 3C 90 because of bytes elsewhere in data.
C19_JumpAtOffset ==
    fres.op = "parse_boot" =>
        /\ SectorJump /= <<235, 60, 144>> => fres.tag = "FATError"
        /\ (SectorSigned /\ SectorJump = <<235, 60, 144>>) => fres.tag /= "FATError"

\* the root directory FAT.load hands to RootEntry.parse
RootBytes ==
    ReadAt(fio.io, fio.offset + root_offset(LoadBoot.val), cluster_size(LoadBoot.val))

\* the 32-byte entries behind the volume label, in front of the first entry
\* whose first byte is 0
Listed ==
    {k \in 1..(Len(RootBytes) \div DIR_ENTRY_SIZE - 1) :
        \A j \in 1..k : At(RootBytes, j * DIR_ENTRY_SIZE) /= 0}

\* those of them that are short-name entries
ListedFiles == {k \in Listed : At(RootBytes, k * DIR_ENTRY_SIZE + 11) /= ATTR_LONG_FILE_NAME}

\* C20: RootEntry.parse walks the entries behind the volume label in order
\* and stops at the first entry whose first byte is 0x00; every short-name
\* entry in front of it becomes a FileEntry, whatever its second byte is.
C20_ListingEndsAtZeroByte ==
    (fres.op = "load" /\ fres.tag = "ok") =>
        /\ Len(fat.val.root_dir.files) = Cardinality(ListedFiles)
        /\ \A k \in ListedFiles :
              LET n == Cardinality({j \in ListedFiles : j <= k})
              IN  /\ n <= Len(fat.val.root_dir.files)
                  /\ fat.val.root_dir.files[n].file_size
                       = UnpackLE(RootBytes, k * DIR_ENTRY_SIZE + 28, 4)
                  /\ fat.val.root_dir.files[n].attributes = At(RootBytes, k * DIR_ENTRY_SIZE + 11)

\* the number of long-name entries of a name of L UTF-16 units: ceil(L / 13)
LfnEntries(L) == (L + 12) \div 13

\* the files of the loaded root directory, and where the entries of file k
\* start in an export that is laid out as described
ExportedFiles == fat.val.root_dir.files

RECURSIVE ExportStart(_)
ExportStart(k) ==
    IF k = 1 THEN DIR_ENTRY_SIZE
    ELSE ExportStart(k - 1)
         + (LfnEntries(Len(ExportedFiles[k - 1].name)) + 1) * DIR_ENTRY_SIZE

\* the 26 name bytes of the long-name entry at byte position at
ExportedFragment(at) ==
    Slice(fres.val, at + 1, at + 11) \o Slice(fres.val, at + 14, at + 26)
        \o Slice(fres.val, at + 28, at + 32)

\* C21: for every file whose name has L >= 1 UTF-16 units, the loop of
\* RootEntry.export that emits the long-name entries terminates after
\* exactly N = ceil(L / 13) entries in front of the short-name entry; their
\* sequence bytes are N | 0x40, N - 1, ..., 1, each carries 26 name bytes (the
\* first written one padded) and the lfn_crc of the short name.
C21_LfnLoopWritesAllFragments ==
    fres.op = "root_export" =>
        /\ fres.tag = "ok"
        /\ Len(fres.val) = ExportStart(Len(ExportedFiles) + 1)
        /\ \A k \in DOMAIN ExportedFiles :
              LET N     == LfnEntries(Len(ExportedFiles[k].name))
                  start == ExportStart(k)
                  short == Slice(fres.val, start + N * DIR_ENTRY_SIZE,
                                 start + N * DIR_ENTRY_SIZE + 11)
                  bytes == Utf16LE(ExportedFiles[k].name)
              IN  \A j \in 0..(N - 1) :
                     LET at == start + j * DIR_ENTRY_SIZE
                     IN  /\ At(fres.val, at) = (N - j) + (IF j = 0 THEN 64 ELSE 0)
                         /\ At(fres.val, at + 11) = ATTR_LONG_FILE_NAME
                         /\ At(fres.val, at + 13) = lfn_crc(short)
                         /\ ExportedFragment(at)
                              = PackS(Slice(bytes, 26 * (N - j - 1), 26 * (N - j))
                                        \o [i \in 1..26 |-> 255], 26)

\* the first cluster of the root directory of a FAT32 volume: the data
\* cluster boot_sector.root_cluster names
RootCluster32 ==
    LET b == LoadBoot.val
    IN  ReadAt(fio.io, fio.offset + data_offset(b) + (b.root_cluster - 2) * cluster_size(b),
               cluster_size(b))

\* everything FAT.load does in front of the root directory succeeds
LoadReachesRoot ==
    /\ OnlyCopiesCanFail
    /\ CopiesAgree
    /\ (fres.bits = 32 /\ LoadBoot.val.boot_copy_sector /= 0) => PrimaryBoot.val = BackupBoot.val

\* C22: FAT.load ends by parsing the root directory: for 32 bits from the
\* cluster chain that starts at boot_sector.root_cluster, and the load
\* completes; for 12 and 16 bits from the fixed region at
\* io_offset + root_offset.
C22_RootDirectoryLocated ==
    (fres.op = "load" /\ LoadReachesRoot) =>
        IF fres.bits = 32
        THEN /\ RootEntryParse(RootCluster32, 0).tag = "ok" => fres.tag = "ok"
             /\ fres.tag = "ok" => fat.val.root_dir = RootEntryParse(RootCluster32, 0).val
        ELSE /\ fres.tag = RootEntryParse(RootBytes, 0).tag
             /\ fres.tag = "ok" => fat.val.root_dir = RootEntryParse(RootBytes, 0).val

\* the MBR LinuxImage.parse reads at the cursor of the stream
ImageMbr == MBRparse(Slice(mdata, mimage.val.pos, mimage.val.pos + MBR_SIZE), 0)

\* min(0x800000, lba_start * 512 of every populated slot)
LowestPartOffset ==
    LET offsets == {ImageMbr.val.partitions[k].lba_start * 512 : k \in DOMAIN ImageMbr.val.partitions}
                   \cup {8388608}
    IN  CHOOSE x \in offsets : \A y \in offsets : x <= y

\* C27: iterating an MBR yields each of its populated PartitionEntry objects
\* exactly once, so LinuxImage.parse on a stream with a valid, populated MBR
\* gets past its loop with part_offset = min(0x800000, lba_start * 512 over
\* the populated slots).
C27_IterationYieldsEntries ==
    /\ LET items == MBRiter(mbr)
       IN  /\ Len(items) = MBRlen(mbr)
           /\ \A k \in DOMAIN mbr.partitions :
                 Cardinality({i \in DOMAIN items : items[i] = mbr.partitions[k]}) >= 1
    /\ (mimage.tag /= "none" /\ ImageMbr.tag = "ok" /\ MBRlen(ImageMbr.val) > 0) =>
          /\ mimage.val.out /= None
          /\ mimage.val.out.part_offset = LowestPartOffset

\* the lowest-numbered populated slot of the image's MBR whose partition type
\* is one of types, or None
LowestSlotOf(types) ==
    LET slots == {k \in DOMAIN ImageMbr.val.partitions :
                     ImageMbr.val.partitions[k].partition_type \in types}
    IN  IF slots = {} THEN None
        ELSE ImageMbr.val.partitions[CHOOSE k \in slots : \A j \in slots : k <= j]

\* C23: LinuxImage.parse on a stream with a valid, populated MBR returns;
\* afterwards fat is the FAT codec at lba_start * 512 of the lowest-numbered
\* populated slot of type FAT12, FAT16_32M, FAT16_2G, FAT32 or FAT32X, with
\* 12, 16, 16, 32, 32 bits, and ext is the ExtX codec at lba_start * 512 of
\* the lowest-numbered slot of type LINUX, whichever slots these are; slots
\* of other types construct nothing and make nothing fail.
C23_PartitionsDispatched ==
    (mimage.tag /= "none" /\ ImageMbr.tag = "ok" /\ MBRlen(ImageMbr.val) > 0) =>
        /\ mimage.tag = "ok"
        /\ LET f == LowestSlotOf({1, 4, 6, 11, 12})
           IN  mimage.val.out.fat
                 = IF f = None THEN None
                   ELSE [offset |-> f.lba_start * 512,
                         bits   |-> CASE f.partition_type = 1 -> 12
                                      [] f.partition_type \in {4, 6} -> 16
                                      [] OTHER -> 32]
        /\ LET x == LowestSlotOf({PT_LINUX})
           IN  mimage.val.out.ext
                 = IF x = None THEN None ELSE [offset |-> x.lba_start * 512]

\* the boot sector get_fat_bits reads, parsed in the FAT12/16 layout (label
\* at bytes 54..62) and in the FAT32 layout (label at bytes 82..90)
NarrowBoot == BootSectorParse(FALSE, ReadAt(fio.io, fio.offset, FAT_SECTOR_SIZE), 0)

WideBoot == BootSectorParse(TRUE, ReadAt(fio.io, fio.offset, FAT_SECTOR_SIZE), 0)

NarrowLabelled == NarrowBoot.tag = "ok" /\ NarrowBoot.val.fs_type \in {<<70, 65, 84, 49, 50>>, <<70, 65, 84, 49, 54>>}

WideLabelled == WideBoot.tag = "ok" /\ WideBoot.val.fs_type = <<70, 65, 84, 51, 50>>

\* C24: get_fat_bits tries the FAT32 layout first and falls back to the
\* FAT12/16 layout when that gives no usable result: a valid boot sector
\* labelled FAT12 or FAT16 at bytes 54..62 yields 12 or 16 whatever bytes
\* 82..90 hold, a FAT32 boot sector yields 32, and FATError is raised only
\* when neither layout carries a known label.
C24_FatBitsFallsBack ==
    fres.op = "fat_bits" =>
        /\ (NarrowLabelled /\ ~WideLabelled) =>
              /\ fres.tag = "ok"
              /\ fres.val = IF NarrowBoot.val.fs_type = <<70, 65, 84, 49, 50>> THEN 12 ELSE 16
        /\ (WideLabelled /\ ~NarrowLabelled) => (fres.tag = "ok" /\ fres.val = 32)
        /\ fres.tag = "FATError" => (~NarrowLabelled /\ ~WideLabelled)

\* the calls the last FAT.load or FAT.export_file made on the stream
StreamCalls == IF "calls" \in DOMAIN fres THEN fres.calls ELSE <<>>

\* C25: every read that FAT.load and FAT.export_file make on the shared
\* stream comes directly after a seek to a computed absolute offset; no read
\* starts at the cursor an earlier read left behind.
C25_ReadsFollowSeeks ==
    \A i \in DOMAIN StreamCalls :
        StreamCalls[i].op = "read" => (i > 1 /\ StreamCalls[i - 1].op = "seek")

\* C26: decode_date and decode_datetime invert the on-disk encoding
\* date = (year - 1980) << 9 | month << 5 | day and
\* time = hour << 11 | minute << 5 | second / 2: for a year in 1980..2107, a
\* month in 1..12, a day in 1..31, an hour in 0..23, a minute in 0..59 and an
\* even second in 0..58 they return the calendar values that were written.
C26_DecodeInvertsEncoding ==
    /\ fres.op = "decode_date" =>
          /\ fres.tag = "ok"
          /\ fres.val = [year |-> fres.written.year, month |-> fres.written.month,
                         day |-> fres.written.day]
    /\ fres.op = "decode_datetime" =>
          /\ fres.tag = "ok"
          /\ fres.val = fres.written

\* C28: whatever __setitem__, dell and clear calls were made, with whatever
\* integer keys, every key of the MBR lies in 0..3, there are at most four
\* entries, and every stored entry is emitted by export in the slot of its
\* key (the k-th 16-byte record behind the bootstrap bytes); no entry is
\* stored under a key export never emits.
C28_KeysAreSlots ==
    /\ DOMAIN mbr.partitions \subseteq 0..(MBR_MAX_PARTITIONS - 1)
    /\ MBRlen(mbr) <= MBR_MAX_PARTITIONS
    /\ \A k \in DOMAIN mbr.partitions :
          /\ k >= 0
          /\ Slice(MBRexport(mbr), Len(mbr.bootstrap) + k * MBR_ENTRY_SIZE,
                   Len(mbr.bootstrap) + (k + 1) * MBR_ENTRY_SIZE)
               = MbrEntryExport(mbr.partitions[k])

\* the k-th short-name entry of the root directory has no long-name entry in
\* front of it
PlainEntry(k) == k - 1 \notin Listed \ ListedFiles

\* C29: a directory entry that is not preceded by a long-name entry is given
\* its 8.3 short name, also when the lfn_crc of that short name is 0; the
\* name is never empty.
C29_ShortNameKept ==
    (fres.op = "load" /\ fres.tag = "ok") =>
        \A k \in ListedFiles :
            LET n == Cardinality({j \in ListedFiles : j <= k})
            IN  (PlainEntry(k) /\ n <= Len(fat.val.root_dir.files)) =>
                   /\ fat.val.root_dir.files[n].name
                        = Slice(RootBytes, k * DIR_ENTRY_SIZE, k * DIR_ENTRY_SIZE + 11)
                   /\ fat.val.root_dir.files[n].name /= <<>>

\* C30: RootEntry.parse never reads past the end of its buffer: on every
\* root directory region of at least 32 bytes, also one that is full and
\* has no end marker or one that ends inside a chain of long-name entries,
\* it returns a RootEntry or raises FATError, and no IndexError or
\* struct.error escapes.
C30_ParseStaysInBuffer ==
    (fres.op = "load" /\ fres.bits /= 32 /\ LoadReachesRoot /\ Len(RootBytes) >= DIR_ENTRY_SIZE) =>
        /\ fres.tag \notin {"IndexError", "struct.error"}
        /\ RootEntryParse(RootBytes, 0).tag \notin {"IndexError", "struct.error"}

===========================================================================
